---- MODULE Spec2Model ----
(***************************************************************************)
(* A model of smallnest/ringbuffer: the RingBuffer of ring_buffer.go, a    *)
(* fixed-size circular byte buffer guarded by one mutex and two condition  *)
(* variables.  The storage core (read, write, writeByte, peek) is modelled *)
(* as operators on a record of the buffer's fields; every public method is *)
(* a small state machine per calling goroutine: a call step that takes the *)
(* mutex, a body step that runs under the mutex up to the next wait or the *)
(* return, and a wake step that re-takes the mutex after a Cond.Wait.      *)
(***************************************************************************)
EXTENDS Integers, Sequences, FiniteSets, TLC

\* ------------------------------------------------------------------ bounds
\* Largest capacity given to New.
MaxSize == 3
\* Number of bytes the producing side offers in one run.
MaxBytes == 4
\* Number of empty reads (0, nil) a source of ReadFrom makes in one call.
MaxEmptyReads == 1
\* Number of bytes written in one run of a buffer in overwrite mode.
MaxOverwritten == 6

\* ------------------------------------------------------- program constants
\* WriteTo's lower limit for halving the segment it hands to the sink (8<<10).
MinChunk == 8192
\* ReadFrom's limit of consecutive empty reads of the source.
MaxZeroReads == 100

\* Goroutines: Producer calls the write side, Consumer the read side,
\* Controller closes and resets.
Producer == "producer"
Consumer == "consumer"
Controller == "controller"
Threads == {Producer, Consumer, Controller}
NoThread == "none"

\* ------------------------------------------------------------------ errors
Nil == "nil"
ErrTooMuchDataToWrite == "ErrTooMuchDataToWrite"
ErrIsFull == "ErrIsFull"
ErrIsEmpty == "ErrIsEmpty"
ErrIsNotEmpty == "ErrIsNotEmpty"
ErrAcquireLock == "ErrAcquireLock"
ErrWriteOnClosed == "ErrWriteOnClosed"
EOF == "io.EOF"
ErrShortWrite == "io.ErrShortWrite"
ErrNoProgress == "io.ErrNoProgress"
DeadlineExceeded == "context.DeadlineExceeded"
\* errors.New("reset called") of Reset.
ErrReset == "reset called"
\* errors.New("RingBuffer: ReadFrom/WriteTo only available in blocking mode")
ErrNotBlocking == "only available in blocking mode"
\* An error supplied by a caller of CloseWithError.
ErrUser == "test error"
\* An error returned by the source of ReadFrom or the sink of WriteTo.
ErrIO == "io error"
\* io.ErrClosedPipe, the error of a pipe whose read half is closed.
ErrClosedPipe == "io.ErrClosedPipe"

VARIABLES
    size,       \* r.size: capacity, fixed by New
    buf,        \* r.buf: [0..size-1 -> byte]
    r,          \* r.r: next position to read
    w,          \* r.w: next position to write
    isFull,     \* r.isFull
    err,        \* r.err: the sticky error
    block,      \* r.block
    readTimeout,  \* r.timeout as it bounds the waits of Read, ReadByte, WriteTo
    writeTimeout, \* r.timeout as it bounds the waits of Write, WriteByte,
                  \* ReadFrom and Flush
    mu,         \* r.mu: the goroutine holding the mutex, or NoThread
    wg,         \* r.wg: counter of the WaitGroup
    readCond,   \* goroutines parked in r.readCond.Wait()
    writeCond,  \* goroutines parked in r.writeCond.Wait()
    pc,         \* per goroutine: where it is in the method it runs
    lv,         \* per goroutine: the locals of the method it runs
    ret,        \* the call that returned in the last step, if one did: goroutine,
                \* method, argument length, count, error, bytes handed out
    hist,       \* all bytes stored so far, in the order stored
    out,        \* all bytes handed to consumers so far, in the order handed
    last,       \* the last complete non-blocking Write: payload, unread bytes
                \* before it, and Len(out) at its return
    copy        \* the Copy in progress, if any: where its goroutine and its
                \* caller are, and the source and the sink it was given

core == <<buf, r, w, isFull, err>>
timeouts == <<readTimeout, writeTimeout>>
vars == <<size, buf, r, w, isFull, err, block, timeouts, mu, wg, readCond,
          writeCond, pc, lv, ret, hist, out, last, copy>>

Min(a, b) == IF a < b THEN a ELSE b

\* The fields every storage operation reads, as one record.
S == [buf |-> buf, size |-> size, r |-> r, w |-> w, isFull |-> isFull, err |-> err]

\* b[from:to] of a byte array b indexed from 0, as a sequence.
Slice(b, from, to) == [i \in 1..(to - from) |-> b[from + i - 1]]

\* copy(b[at:], p) for a sequence p that fits: b with p laid at offset at.
CopyIn(b, at, p) ==
    [i \in DOMAIN b |-> IF i >= at /\ i < at + Len(p) THEN p[i - at + 1] ELSE b[i]]

\* p[n:] of a sequence p.
Drop(p, n) == SubSeq(p, n + 1, Len(p))

\* p[:n] of a sequence p.
Take(p, n) == SubSeq(p, 1, n)

IsPrefix(p, q) == Len(p) <= Len(q) /\ p = SubSeq(q, 1, Len(p))

\* ------------------------------------------------------------ observers
Length(s) ==
    IF s.w = s.r THEN (IF s.isFull THEN s.size ELSE 0)
    ELSE IF s.w > s.r THEN s.w - s.r
    ELSE s.size - s.r + s.w

\* A faulty Free that forgets the wrap: it takes the write cursor to be ahead
\* of the read cursor whenever the two differ.
FreeNoWrap(s) ==
    IF s.w = s.r THEN (IF s.isFull THEN 0 ELSE s.size)
    ELSE s.size - s.w + s.r

Free(s) ==
    IF s.w = s.r THEN (IF s.isFull THEN 0 ELSE s.size)
    ELSE IF s.w < s.r THEN s.r - s.w
    ELSE s.size - s.w + s.r

Capacity(s) == s.size

IsFull(s) == s.isFull

\* A faulty IsEmpty that looks at the cursors only.
IsEmptyCursors(s) == s.w = s.r

IsEmpty(s) == ~s.isFull /\ s.w = s.r

\* Bytes(nil): the unread bytes, oldest first.
Bytes(s) ==
    IF s.w = s.r THEN
        (IF s.isFull THEN Slice(s.buf, s.r, s.size) \o Slice(s.buf, 0, s.w) ELSE <<>>)
    ELSE IF s.w > s.r THEN Slice(s.buf, s.r, s.w)
    ELSE LET n == s.size - s.r + s.w IN
         IF s.r + n < s.size THEN Slice(s.buf, s.r, s.r + n)
         ELSE Slice(s.buf, s.r, s.size) \o Slice(s.buf, 0, n - (s.size - s.r))

\* ------------------------------------------------------------ error slot
Transient == {Nil, ErrIsEmpty, ErrIsFull, ErrAcquireLock, ErrTooMuchDataToWrite, ErrIsNotEmpty}

\* A faulty setErr that keeps ErrTooMuchDataToWrite as the sticky error.
setErrKeepsShort(s, e) ==
    IF s.err # Nil /\ s.err # EOF THEN [s |-> s, e |-> s.err, bc |-> FALSE]
    ELSE IF e \in Transient \ {ErrTooMuchDataToWrite} THEN [s |-> s, e |-> e, bc |-> FALSE]
    ELSE [s |-> [s EXCEPT !.err = e], e |-> e, bc |-> block]

\* setErr under the mutex: the new fields, the error returned, and whether both
\* conditions were broadcast.
setErr(s, e) ==
    IF s.err # Nil /\ s.err # EOF THEN [s |-> s, e |-> s.err, bc |-> FALSE]
    ELSE IF e \in Transient THEN [s |-> s, e |-> e, bc |-> FALSE]
    ELSE [s |-> [s EXCEPT !.err = e], e |-> e, bc |-> block]

\* A faulty readErr that holds every error back, not only io.EOF, while unread
\* bytes remain.
readErrDrains(s) ==
    IF s.err # Nil THEN
        IF s.w = s.r /\ ~s.isFull THEN s.err ELSE Nil
    ELSE Nil

\* readErr under the mutex: io.EOF shows once the buffer is empty, any other
\* error at once.
readErr(s) ==
    IF s.err # Nil THEN
        IF s.err = EOF THEN (IF s.w = s.r /\ ~s.isFull THEN EOF ELSE Nil)
        ELSE s.err
    ELSE Nil

\* The translation every write method applies to r.err on entry.
writeErr(s) == IF s.err = EOF THEN ErrWriteOnClosed ELSE s.err

\* ---------------------------------------------------------- storage core
\* A faulty read that reports an empty buffer as (0, nil).
readEmptyNil(s, k) ==
    IF s.w = s.r /\ ~s.isFull THEN [s |-> s, n |-> 0, data |-> <<>>, e |-> Nil]
    ELSE IF s.w > s.r THEN
        LET n == Min(s.w - s.r, k) IN
        [s |-> [s EXCEPT !.r = (s.r + n) % s.size], n |-> n,
         data |-> Slice(s.buf, s.r, s.r + n), e |-> Nil]
    ELSE
        LET n == Min(s.size - s.r + s.w, k)
            c1 == s.size - s.r
            data == IF s.r + n <= s.size THEN Slice(s.buf, s.r, s.r + n)
                    ELSE Slice(s.buf, s.r, s.size) \o Slice(s.buf, 0, n - c1)
            s2 == [s EXCEPT !.r = (s.r + n) % s.size, !.isFull = FALSE]
        IN [s |-> s2, n |-> n, data |-> data, e |-> readErr(s2)]

\* read(p) with len(p) = k: the new fields, n, the bytes copied to p, the error.
read(s, k) ==
    IF s.w = s.r /\ ~s.isFull THEN [s |-> s, n |-> 0, data |-> <<>>, e |-> ErrIsEmpty]
    ELSE IF s.w > s.r THEN
        LET n == Min(s.w - s.r, k) IN
        [s |-> [s EXCEPT !.r = (s.r + n) % s.size], n |-> n,
         data |-> Slice(s.buf, s.r, s.r + n), e |-> Nil]
    ELSE
        LET n == Min(s.size - s.r + s.w, k)
            c1 == s.size - s.r
            data == IF s.r + n <= s.size THEN Slice(s.buf, s.r, s.r + n)
                    ELSE Slice(s.buf, s.r, s.size) \o Slice(s.buf, 0, n - c1)
            s2 == [s EXCEPT !.r = (s.r + n) % s.size, !.isFull = FALSE]
        IN [s |-> s2, n |-> n, data |-> data, e |-> readErr(s2)]

\* A faulty peek that copies the segment up to the end of the array only.
peekOneSegment(s, k) ==
    IF s.w = s.r /\ ~s.isFull THEN [n |-> 0, data |-> <<>>, e |-> ErrIsEmpty]
    ELSE IF s.w > s.r THEN
        LET n == Min(s.w - s.r, k) IN
        [n |-> n, data |-> Slice(s.buf, s.r, s.r + n), e |-> Nil]
    ELSE
        LET n == Min(s.size - s.r, k)
        IN [n |-> n, data |-> Slice(s.buf, s.r, s.r + n), e |-> readErr(s)]

\* peek(p) with len(p) = k: n, the bytes copied to p, the error.
peek(s, k) ==
    IF s.w = s.r /\ ~s.isFull THEN [n |-> 0, data |-> <<>>, e |-> ErrIsEmpty]
    ELSE IF s.w > s.r THEN
        LET n == Min(s.w - s.r, k) IN
        [n |-> n, data |-> Slice(s.buf, s.r, s.r + n), e |-> Nil]
    ELSE
        LET n == Min(s.size - s.r + s.w, k)
            c1 == s.size - s.r
            data == IF s.r + n <= s.size THEN Slice(s.buf, s.r, s.r + n)
                    ELSE Slice(s.buf, s.r, s.size) \o Slice(s.buf, 0, n - c1)
        IN [n |-> n, data |-> data, e |-> readErr(s)]

\* A faulty copy that lays the payload at the write cursor in one segment and
\* drops what runs past the end of the array.
writeCopyOneSegment(s, p) ==
    LET n == Len(p) IN
    IF s.w >= s.r THEN
        LET c1 == s.size - s.w IN
        IF c1 >= n THEN [buf |-> CopyIn(s.buf, s.w, p), w |-> s.w + n]
        ELSE [buf |-> CopyIn(s.buf, s.w, Take(p, c1)), w |-> n - c1]
    ELSE [buf |-> CopyIn(s.buf, s.w, p), w |-> s.w + n]

\* The two-segment copy of write: p (which fits) laid at the write cursor.
\* Yields the new array and the new write cursor before the wrap to 0.
writeCopy(s, p) ==
    LET n == Len(p) IN
    IF s.w >= s.r THEN
        LET c1 == s.size - s.w IN
        IF c1 >= n THEN [buf |-> CopyIn(s.buf, s.w, p), w |-> s.w + n]
        ELSE [buf |-> CopyIn(CopyIn(s.buf, s.w, Take(p, c1)), 0, Drop(p, c1)),
              w |-> n - c1]
    ELSE [buf |-> CopyIn(s.buf, s.w, p), w |-> s.w + n]

\* write(p): the new fields, n and the error.
write(s, p) ==
    IF s.isFull THEN [s |-> s, n |-> 0, e |-> ErrIsFull]
    ELSE
        LET avail == IF s.w >= s.r THEN s.size - s.w + s.r ELSE s.r - s.w
            e == IF Len(p) > avail THEN ErrTooMuchDataToWrite ELSE Nil
            q == IF Len(p) > avail THEN Take(p, avail) ELSE p
            c == writeCopy(s, q)
            w1 == IF c.w = s.size THEN 0 ELSE c.w
        IN [s |-> [s EXCEPT !.buf = c.buf, !.w = w1,
                            !.isFull = IF w1 = s.r THEN TRUE ELSE s.isFull],
            n |-> Len(q), e |-> e]

\* A faulty writeByte that never raises the full flag.
writeByteNoFull(s, c) ==
    IF s.err # Nil THEN [s |-> s, e |-> s.err]
    ELSE IF s.w = s.r /\ s.isFull THEN [s |-> s, e |-> ErrIsFull]
    ELSE
        LET w0 == s.w + 1
            w1 == IF w0 = s.size THEN 0 ELSE w0
        IN [s |-> [s EXCEPT !.buf = CopyIn(s.buf, s.w, <<c>>), !.w = w1], e |-> Nil]

\* writeByte(c): the new fields and the error.
writeByte(s, c) ==
    IF s.err # Nil THEN [s |-> s, e |-> s.err]
    ELSE IF s.w = s.r /\ s.isFull THEN [s |-> s, e |-> ErrIsFull]
    ELSE
        LET w0 == s.w + 1
            w1 == IF w0 = s.size THEN 0 ELSE w0
        IN [s |-> [s EXCEPT !.buf = CopyIn(s.buf, s.w, <<c>>), !.w = w1,
                            !.isFull = IF w1 = s.r THEN TRUE ELSE s.isFull],
            e |-> Nil]

\* The tail of ReadByte: the byte at the read cursor is taken.
readByte(s) ==
    LET r0 == s.r + 1
        r1 == IF r0 = s.size THEN 0 ELSE r0
        s2 == [s EXCEPT !.r = r1, !.isFull = FALSE]
    IN [s |-> s2, b |-> s.buf[s.r], e |-> readErr(s2)]

\* ------------------------------------------------------------- goroutines
\* sel, keep and h belong to a wait with a timeout: where the waiting method is
\* in its select, canKeepLock, and where the goroutine it started is.
NoLocals == [p |-> <<>>, k |-> 0, n |-> 0, at |-> 0, cap |-> 0, zr |-> 0, zb |-> 0,
             e |-> Nil, waited |-> FALSE, k0 |-> 0,
             sel |-> "select", keep |-> FALSE, h |-> "wait"]
NoRet == [t |-> NoThread, op |-> "none", arg |-> 0, n |-> 0, e |-> Nil, data |-> <<>>,
          waited |-> FALSE]
NoLast == [on |-> FALSE, p |-> <<>>, skip |-> 0, at |-> 0]
NoCopy == [go |-> "none", main |-> "none", src |-> "none", dst |-> "none", k |-> 0, z |-> 0]

\* What a call hands back: the method, the length of its argument, the count and
\* the error returned, the bytes handed out, and whether the call has waited.
Rec(op, arg, n, e, data, waited) ==
    [t |-> NoThread, op |-> op, arg |-> arg, n |-> n, e |-> e, data |-> data,
     waited |-> waited]

\* The next k bytes the producing side offers: each byte is its position in
\* the stream of bytes stored, so a lost, repeated or misplaced byte shows.
Payload(k) == [i \in 1..k |-> Len(hist) + i]

SetCore(s) ==
    /\ buf' = s.buf
    /\ r' = s.r
    /\ w' = s.w
    /\ isFull' = s.isFull
    /\ err' = s.err

\* mu.Lock() on entry of a method: the goroutine gets the mutex and its locals.
Enter(t, label, locals) ==
    /\ pc[t] = "idle"
    /\ mu = NoThread
    /\ mu' = t
    /\ pc' = [pc EXCEPT ![t] = label]
    /\ lv' = [lv EXCEPT ![t] = locals]
    /\ UNCHANGED <<size, copy, timeouts, core, block, wg, readCond, writeCond, hist, out, last>>
    /\ ret' = NoRet

\* The deferred mu.Unlock() and the return.
Leave(t, rec) ==
    /\ pc' = [pc EXCEPT ![t] = "idle"]
    /\ lv' = [lv EXCEPT ![t] = NoLocals]
    /\ ret' = [rec EXCEPT !.t = t]
    /\ mu' = NoThread

\* Cond.Wait(): the mutex is released and the goroutine parks.
Park(t, label, locals) ==
    /\ pc' = [pc EXCEPT ![t] = label]
    /\ lv' = [lv EXCEPT ![t] = [locals EXCEPT !.waited = TRUE]]
    /\ mu' = NoThread
    /\ ret' = NoRet

\* The labels at which a goroutine is inside Cond.Wait(), and where it goes on.
WaitLabels == {"Read.wait", "ReadByte.wait", "Write.wait", "WriteByte.wait",
               "Flush.wait", "ReadFrom.wait", "WriteTo.wait"}
After(label) ==
    CASE label = "Read.wait" -> "Read.retry"
      [] label = "ReadByte.wait" -> "ReadByte.retry"
      [] label = "Write.wait" -> "Write.retry"
      [] label = "WriteByte.wait" -> "WriteByte.retry"
      [] label = "Flush.wait" -> "Flush"
      [] label = "ReadFrom.wait" -> "ReadFrom"
      [] label = "WriteTo.wait" -> "WriteTo"

\* The end of Cond.Wait(): a goroutine that a Broadcast has released takes the
\* mutex again.
Wake(t) ==
    /\ pc[t] \in WaitLabels
    /\ t \notin readCond
    /\ t \notin writeCond
    /\ mu = NoThread
    /\ mu' = t
    /\ pc' = [pc EXCEPT ![t] = After(pc[t])]
    /\ UNCHANGED <<size, copy, timeouts, core, block, wg, readCond, writeCond, lv, hist, out, last>>
    /\ ret' = NoRet

\* The waits on writeCond, by waitWrite(), and the method a wait belongs to.
DataWaits == {"Read.wait", "ReadByte.wait", "WriteTo.wait"}
MethodOf(label) ==
    CASE label = "Read.wait" -> "Read"
      [] label = "ReadByte.wait" -> "ReadByte"
      [] label = "Write.wait" -> "Write"
      [] label = "WriteByte.wait" -> "WriteByte"
      [] label = "Flush.wait" -> "Flush"
      [] label = "ReadFrom.wait" -> "ReadFrom"
      [] label = "WriteTo.wait" -> "WriteTo"

\* A faulty choice of the duration: one timeout bounds the waits of both sides.
TimeoutShared(label) == IF readTimeout > 0 THEN readTimeout ELSE writeTimeout

\* r.timeout as waitWrite() and waitRead() test it: waitWrite() bounds the wait
\* for data, waitRead() the wait for space.
Timeout(label) == IF label \in DataWaits THEN readTimeout ELSE writeTimeout

\* A faulty expiry that returns context.DeadlineExceeded to the waiting method
\* and does not store it.
ExpireUnstored(t) ==
    /\ pc[t] \in WaitLabels
    /\ Timeout(pc[t]) > 0
    /\ mu = NoThread
    /\ readCond' = IF pc[t] \notin DataWaits THEN {} ELSE readCond
    /\ writeCond' = IF pc[t] \in DataWaits THEN {} ELSE writeCond
    /\ IF pc[t] = "Write.wait" THEN
           /\ mu' = t
           /\ pc' = [pc EXCEPT ![t] = "Write.retry"]
           /\ ret' = NoRet
           /\ UNCHANGED lv
       ELSE
           Leave(t, Rec(MethodOf(pc[t]),
                        IF pc[t] \in {"Read.wait", "ReadByte.wait", "WriteByte.wait"}
                        THEN lv[t].k ELSE 0,
                        0, DeadlineExceeded, <<>>, TRUE))
    /\ wg' = IF pc[t] = "Read.wait" THEN wg - 1 ELSE wg
    /\ UNCHANGED <<size, copy, timeouts, core, block, hist, out, last>>

\* The timer of waitRead() or waitWrite() fires and wins the race for
\* canKeepLock: the waiting method takes the mutex, broadcasts on the condition
\* it waited on, sets context.DeadlineExceeded and gets false.  Write does not
\* look at that result and goes round its loop; every other method returns
\* context.DeadlineExceeded with a count of 0 (Read by way of its deferred
\* wg.Done()).
Expire(t) ==
    /\ pc[t] \in WaitLabels
    /\ Timeout(pc[t]) > 0
    /\ mu = NoThread
    /\ LET se == setErr(S, DeadlineExceeded) IN
       /\ SetCore(se.s)
       /\ readCond' = IF se.bc \/ pc[t] \notin DataWaits THEN {} ELSE readCond
       /\ writeCond' = IF se.bc \/ pc[t] \in DataWaits THEN {} ELSE writeCond
    /\ IF pc[t] = "Write.wait" THEN
           /\ mu' = t
           /\ pc' = [pc EXCEPT ![t] = "Write.retry"]
           /\ ret' = NoRet
           /\ UNCHANGED lv
       ELSE
           Leave(t, Rec(MethodOf(pc[t]),
                        IF pc[t] \in {"Read.wait", "ReadByte.wait", "WriteByte.wait"}
                        THEN lv[t].k ELSE 0,
                        0, DeadlineExceeded, <<>>, TRUE))
    /\ wg' = IF pc[t] = "Read.wait" THEN wg - 1 ELSE wg
    /\ UNCHANGED <<size, copy, timeouts, block, hist, out, last>>

\* A Try method finding the mutex taken: TryLock fails, ErrAcquireLock.
TryFail(t, op, k) ==
    /\ pc[t] = "idle"
    /\ mu # NoThread
    /\ ret' = [Rec(op, k, 0, ErrAcquireLock, <<>>, FALSE) EXCEPT !.t = t]
    /\ UNCHANGED <<size, copy, timeouts, core, block, mu, wg, readCond, writeCond, pc, lv, hist, out, last>>

\* ------------------------------------------------------------------- Read
CallRead(t, k) == Enter(t, "Read", [NoLocals EXCEPT !.k = k])

\* r.read(p) and what follows it: wait on writeCond, or broadcast and return.
\* held tells whether wg.Add(1) has been counted already.
ReadPass(t, held) ==
    LET res == read(S, lv[t].k) IN
    IF res.e = ErrIsEmpty /\ block THEN
        /\ Park(t, "Read.wait", lv[t])
        /\ writeCond' = writeCond \cup {t}
        /\ wg' = IF held THEN wg ELSE wg + 1
        /\ UNCHANGED <<size, copy, timeouts, core, block, readCond, hist, out, last>>
    ELSE
        /\ SetCore(res.s)
        /\ Leave(t, Rec("Read", lv[t].k, res.n, res.e, res.data, lv[t].waited))
        /\ readCond' = IF block /\ res.n > 0 THEN {} ELSE readCond
        /\ wg' = IF held THEN wg - 1 ELSE wg
        /\ out' = out \o res.data
        /\ UNCHANGED <<size, copy, timeouts, block, writeCond, hist, last>>

ReadBody(t) ==
    /\ pc[t] = "Read"
    /\ IF lv[t].k = 0 \/ readErr(S) # Nil THEN
           /\ Leave(t, Rec("Read", lv[t].k, 0, readErr(S), <<>>, FALSE))
           /\ UNCHANGED <<size, copy, timeouts, core, block, wg, readCond, writeCond, hist, out, last>>
       ELSE ReadPass(t, FALSE)

ReadRetry(t) ==
    /\ pc[t] = "Read.retry"
    /\ IF readErr(S) # Nil THEN
           /\ Leave(t, Rec("Read", lv[t].k, 0, readErr(S), <<>>, TRUE))
           /\ wg' = wg - 1
           /\ UNCHANGED <<size, copy, timeouts, core, block, readCond, writeCond, hist, out, last>>
       ELSE ReadPass(t, TRUE)

\* ---------------------------------------------------------------- TryRead
CallTryRead(t, k) == Enter(t, "TryRead", [NoLocals EXCEPT !.k = k])

TryReadFail(t, k) == TryFail(t, "TryRead", k)

TryReadBody(t) ==
    /\ pc[t] = "TryRead"
    /\ IF readErr(S) # Nil \/ lv[t].k = 0 THEN
           /\ Leave(t, Rec("TryRead", lv[t].k, 0, readErr(S), <<>>, FALSE))
           /\ UNCHANGED <<size, copy, timeouts, core, block, wg, readCond, writeCond, hist, out, last>>
       ELSE
           LET res == read(S, lv[t].k) IN
           /\ SetCore(res.s)
           /\ Leave(t, Rec("TryRead", lv[t].k, res.n, res.e, res.data, FALSE))
           /\ readCond' = IF block /\ res.n > 0 THEN {} ELSE readCond
           /\ out' = out \o res.data
           /\ UNCHANGED <<size, copy, timeouts, block, wg, writeCond, hist, last>>

\* --------------------------------------------------------------- ReadByte
CallReadByte(t) == Enter(t, "ReadByte", [NoLocals EXCEPT !.k = 1])

\* The loop of ReadByte from its condition on, and the tail after it.
ReadBytePass(t) ==
    IF S.w = S.r /\ ~S.isFull THEN
        IF block THEN
            /\ Park(t, "ReadByte.wait", lv[t])
            /\ writeCond' = writeCond \cup {t}
            /\ UNCHANGED <<size, copy, timeouts, core, block, wg, readCond, hist, out, last>>
        ELSE
            /\ Leave(t, Rec("ReadByte", 1, 0, ErrIsEmpty, <<>>, lv[t].waited))
            /\ UNCHANGED <<size, copy, timeouts, core, block, wg, readCond, writeCond, hist, out, last>>
    ELSE
        LET res == readByte(S) IN
        /\ SetCore(res.s)
        /\ Leave(t, Rec("ReadByte", 1, 1, res.e, <<res.b>>, lv[t].waited))
        /\ out' = out \o <<res.b>>
        /\ UNCHANGED <<size, copy, timeouts, block, wg, readCond, writeCond, hist, last>>

ReadByteBody(t) ==
    /\ pc[t] \in {"ReadByte", "ReadByte.retry"}
    /\ IF readErr(S) # Nil THEN
           /\ Leave(t, Rec("ReadByte", 1, 0, readErr(S), <<>>, lv[t].waited))
           /\ UNCHANGED <<size, copy, timeouts, core, block, wg, readCond, writeCond, hist, out, last>>
       ELSE ReadBytePass(t)

\* ------------------------------------------------------------------- Peek
CallPeek(t, k) == Enter(t, "Peek", [NoLocals EXCEPT !.k = k])

PeekBody(t) ==
    /\ pc[t] = "Peek"
    /\ LET res == IF lv[t].k = 0 \/ readErr(S) # Nil
                  THEN [n |-> 0, data |-> <<>>, e |-> readErr(S)]
                  ELSE peek(S, lv[t].k)
       IN Leave(t, Rec("Peek", lv[t].k, res.n, res.e, res.data, FALSE))
    /\ UNCHANGED <<size, copy, timeouts, core, block, wg, readCond, writeCond, hist, out, last>>

\* ------------------------------------------------------------------ Write
CallWrite(t, k) ==
    /\ Len(hist) + k <= MaxBytes
    /\ Enter(t, "Write", [NoLocals EXCEPT !.p = Payload(k), !.k = k])

\* The record of a complete Write in non-blocking mode, for the reads after it.
Noted(p, n, e) ==
    IF ~block /\ Len(p) > 0 /\ n = Len(p) /\ e = Nil
    THEN [on |-> TRUE, p |-> p, skip |-> Length(S), at |-> Len(out)]
    ELSE last

\* A faulty Write that returns after one r.write(p) in blocking mode too.
WritePassOnce(t) ==
    LET p == lv[t].p
        res == write(S, p)
        fin == setErr(res.s, res.e)
    IN
    /\ SetCore(fin.s)
    /\ Leave(t, Rec("Write", lv[t].k, lv[t].n + res.n, fin.e, <<>>, lv[t].waited))
    /\ writeCond' = IF block /\ res.n > 0 THEN {} ELSE writeCond
    /\ hist' = hist \o Take(p, res.n)
    /\ last' = Noted(p, lv[t].n + res.n, fin.e)
    /\ UNCHANGED <<size, copy, timeouts, block, wg, readCond, out>>

\* One pass of Write's loop: r.write(p), then wait on readCond or return.
WritePass(t) ==
    LET p == lv[t].p
        res == write(S, p)
        wrote == lv[t].n + res.n
        se == setErr(res.s, res.e)
    IN
    IF block /\ res.e # Nil /\ se.e \in {ErrIsFull, ErrTooMuchDataToWrite} THEN
        /\ SetCore(se.s)
        /\ Park(t, "Write.wait", [lv[t] EXCEPT !.p = Drop(p, res.n), !.n = wrote])
        /\ writeCond' = {}
        /\ readCond' = readCond \cup {t}
        /\ hist' = hist \o Take(p, res.n)
        /\ UNCHANGED <<size, copy, timeouts, block, wg, out, last>>
    ELSE
        LET e1 == IF ~block \/ res.e = Nil THEN res.e ELSE se.e
            fin == setErr(se.s, e1)
        IN
        /\ SetCore(fin.s)
        /\ Leave(t, Rec("Write", lv[t].k, wrote, fin.e, <<>>, lv[t].waited))
        /\ writeCond' = IF block /\ wrote > 0 THEN {} ELSE writeCond
        /\ hist' = hist \o Take(p, res.n)
        /\ last' = Noted(p, wrote, fin.e)
        /\ UNCHANGED <<size, copy, timeouts, block, wg, readCond, out>>

WriteBody(t) ==
    /\ pc[t] = "Write"
    /\ IF lv[t].k = 0 \/ err # Nil THEN
           /\ Leave(t, Rec("Write", lv[t].k, 0,
                           IF lv[t].k = 0 THEN setErr(S, Nil).e ELSE writeErr(S),
                           <<>>, FALSE))
           /\ UNCHANGED <<size, copy, timeouts, core, block, wg, readCond, writeCond, hist, out, last>>
       ELSE WritePass(t)

WriteRetry(t) ==
    /\ pc[t] = "Write.retry"
    /\ WritePass(t)

\* --------------------------------------------------------------- TryWrite
\* An empty p goes through setErr(nil, false), which waits for the mutex.
CallTryWrite(t, k) ==
    /\ Len(hist) + k <= MaxBytes
    /\ Enter(t, "TryWrite", [NoLocals EXCEPT !.p = Payload(k), !.k = k])

TryWriteFail(t, k) ==
    /\ k > 0
    /\ TryFail(t, "TryWrite", k)

\* TryWrite with an empty p while another goroutine holds the mutex: there is
\* no TryLock on this path, r.setErr(nil, false) waits in r.mu.Lock().
TryWriteLock(t) ==
    /\ pc[t] = "idle"
    /\ mu # NoThread
    /\ pc' = [pc EXCEPT ![t] = "TryWrite.lock"]
    /\ lv' = [lv EXCEPT ![t] = NoLocals]
    /\ ret' = NoRet
    /\ UNCHANGED <<size, copy, timeouts, core, block, mu, wg, readCond, writeCond, hist, out, last>>

\* The mutex comes free and r.mu.Lock() of setErr returns.
TryWriteLocked(t) ==
    /\ pc[t] = "TryWrite.lock"
    /\ mu = NoThread
    /\ mu' = t
    /\ pc' = [pc EXCEPT ![t] = "TryWrite"]
    /\ ret' = NoRet
    /\ UNCHANGED <<size, copy, timeouts, core, block, wg, readCond, writeCond, lv, hist, out, last>>

TryWriteBody(t) ==
    /\ pc[t] = "TryWrite"
    /\ IF lv[t].k = 0 \/ err # Nil THEN
           /\ Leave(t, Rec("TryWrite", lv[t].k, 0,
                           IF lv[t].k = 0 THEN setErr(S, Nil).e ELSE writeErr(S),
                           <<>>, FALSE))
           /\ UNCHANGED <<size, copy, timeouts, core, block, wg, readCond, writeCond, hist, out, last>>
       ELSE
           LET res == write(S, lv[t].p)
               fin == setErr(res.s, res.e)
           IN
           /\ SetCore(fin.s)
           /\ Leave(t, Rec("TryWrite", lv[t].k, res.n, fin.e, <<>>, FALSE))
           /\ writeCond' = IF block /\ res.n > 0 THEN {} ELSE writeCond
           /\ hist' = hist \o Take(lv[t].p, res.n)
           /\ UNCHANGED <<size, copy, timeouts, block, wg, readCond, out, last>>

\* -------------------------------------------------------------- WriteByte
CallWriteByte(t) ==
    /\ Len(hist) + 1 <= MaxBytes
    /\ Enter(t, "WriteByte", [NoLocals EXCEPT !.p = Payload(1), !.k = 1])

\* A faulty end of WriteByte that stores the byte without a Broadcast.
WriteByteEndQuiet(t, s, e, bc) ==
    IF e = ErrIsFull /\ block THEN
        /\ SetCore(s)
        /\ Park(t, "WriteByte.wait", lv[t])
        /\ readCond' = (IF bc THEN {} ELSE readCond) \cup {t}
        /\ writeCond' = IF bc THEN {} ELSE writeCond
        /\ UNCHANGED <<size, copy, timeouts, block, wg, hist, out, last>>
    ELSE
        /\ SetCore(s)
        /\ Leave(t, Rec("WriteByte", 1, IF e = Nil THEN 1 ELSE 0, e, <<>>, lv[t].waited))
        /\ readCond' = IF bc THEN {} ELSE readCond
        /\ writeCond' = IF bc THEN {} ELSE writeCond
        /\ hist' = IF e = Nil THEN hist \o lv[t].p ELSE hist
        /\ UNCHANGED <<size, copy, timeouts, block, wg, out, last>>

\* The end of WriteByte with error e: wait again on readCond while the buffer
\* is full and blocking, else broadcast writeCond on success and return.
\* bc tells that setErr has broadcast both conditions in this pass.
WriteByteEnd(t, s, e, bc) ==
    IF e = ErrIsFull /\ block THEN
        /\ SetCore(s)
        /\ Park(t, "WriteByte.wait", lv[t])
        /\ readCond' = (IF bc THEN {} ELSE readCond) \cup {t}
        /\ writeCond' = IF bc THEN {} ELSE writeCond
        /\ UNCHANGED <<size, copy, timeouts, block, wg, hist, out, last>>
    ELSE
        /\ SetCore(s)
        /\ Leave(t, Rec("WriteByte", 1, IF e = Nil THEN 1 ELSE 0, e, <<>>, lv[t].waited))
        /\ readCond' = IF bc THEN {} ELSE readCond
        /\ writeCond' = IF bc \/ (block /\ e = Nil) THEN {} ELSE writeCond
        /\ hist' = IF e = Nil THEN hist \o lv[t].p ELSE hist
        /\ UNCHANGED <<size, copy, timeouts, block, wg, out, last>>

WriteByteBody(t) ==
    /\ pc[t] = "WriteByte"
    /\ IF err # Nil THEN
           /\ Leave(t, Rec("WriteByte", 1, 0, writeErr(S), <<>>, FALSE))
           /\ UNCHANGED <<size, copy, timeouts, core, block, wg, readCond, writeCond, hist, out, last>>
       ELSE
           LET res == writeByte(S, lv[t].p[1]) IN
           WriteByteEnd(t, res.s, res.e, FALSE)

WriteByteRetry(t) ==
    /\ pc[t] = "WriteByte.retry"
    /\ LET res == writeByte(S, lv[t].p[1])
           se == setErr(res.s, res.e)
       IN WriteByteEnd(t, se.s, se.e, se.bc)

\* ----------------------------------------------------------- TryWriteByte
CallTryWriteByte(t) ==
    /\ Len(hist) + 1 <= MaxBytes
    /\ Enter(t, "TryWriteByte", [NoLocals EXCEPT !.p = Payload(1), !.k = 1])

TryWriteByteFail(t) == TryFail(t, "TryWriteByte", 1)

TryWriteByteBody(t) ==
    /\ pc[t] = "TryWriteByte"
    /\ IF err # Nil THEN
           /\ Leave(t, Rec("TryWriteByte", 1, 0, writeErr(S), <<>>, FALSE))
           /\ UNCHANGED <<size, copy, timeouts, core, block, wg, readCond, writeCond, hist, out, last>>
       ELSE
           LET res == writeByte(S, lv[t].p[1]) IN
           /\ SetCore(res.s)
           /\ Leave(t, Rec("TryWriteByte", 1, IF res.e = Nil THEN 1 ELSE 0, res.e, <<>>, FALSE))
           /\ writeCond' = IF block /\ res.e = Nil THEN {} ELSE writeCond
           /\ hist' = IF res.e = Nil THEN hist \o lv[t].p ELSE hist
           /\ UNCHANGED <<size, copy, timeouts, block, wg, readCond, out, last>>

\* ------------------------------------------------------------------ Flush
CallFlush(t) == Enter(t, "Flush", NoLocals)

FlushBody(t) ==
    /\ pc[t] = "Flush"
    /\ LET e == readErr(S) IN
       IF (w # r \/ isFull) /\ e = Nil /\ block THEN
           /\ Park(t, "Flush.wait", lv[t])
           /\ readCond' = readCond \cup {t}
           /\ UNCHANGED <<size, copy, timeouts, core, block, wg, writeCond, hist, out, last>>
       ELSE
           /\ Leave(t, Rec("Flush", 0, 0,
                           IF e = EOF THEN Nil
                           ELSE IF e # Nil THEN e
                           ELSE IF w # r \/ isFull THEN ErrIsNotEmpty
                           ELSE Nil,
                           <<>>, lv[t].waited))
           /\ UNCHANGED <<size, copy, timeouts, core, block, wg, readCond, writeCond, hist, out, last>>

\* ------------------------------------------- CloseWithError, CloseWriter
CallCloseWithError(t, e) ==
    Enter(t, "CloseWithError", [NoLocals EXCEPT !.e = IF e = Nil THEN EOF ELSE e])

CallCloseWriter(t) == Enter(t, "CloseWriter", [NoLocals EXCEPT !.e = EOF])

\* setErr(err, false) of either: set under the mutex, waiters released.
CloseBody(t) ==
    /\ pc[t] \in {"CloseWithError", "CloseWriter"}
    /\ LET se == setErr(S, lv[t].e) IN
       /\ SetCore(se.s)
       /\ readCond' = IF se.bc THEN {} ELSE readCond
       /\ writeCond' = IF se.bc THEN {} ELSE writeCond
       /\ Leave(t, Rec(pc[t], 0, 0, Nil, <<>>, FALSE))
    /\ UNCHANGED <<size, copy, timeouts, block, wg, hist, out, last>>

\* ------------------------------------------------------------------ Reset
CallReset(t) == Enter(t, "Reset", NoLocals)

\* A faulty first step of Reset that sets the error and wakes no one.
ResetBodyNoBroadcast(t) ==
    /\ pc[t] = "Reset"
    /\ LET se == setErr(S, ErrReset) IN SetCore(se.s)
    /\ mu' = NoThread
    /\ pc' = [pc EXCEPT ![t] = "Reset.wg"]
    /\ UNCHANGED <<size, copy, timeouts, block, wg, readCond, writeCond, lv, hist, out, last>>
    /\ ret' = NoRet

\* The error is set, the waiters are released and the mutex is given up.
ResetBody(t) ==
    /\ pc[t] = "Reset"
    /\ LET se == setErr(S, ErrReset) IN SetCore(se.s)
    /\ readCond' = IF block THEN {} ELSE readCond
    /\ writeCond' = IF block THEN {} ELSE writeCond
    /\ mu' = NoThread
    /\ pc' = [pc EXCEPT ![t] = "Reset.wg"]
    /\ UNCHANGED <<size, copy, timeouts, block, wg, lv, hist, out, last>>
    /\ ret' = NoRet

\* r.wg.Wait()
ResetWait(t) ==
    /\ pc[t] = "Reset.wg"
    /\ wg = 0
    /\ pc' = [pc EXCEPT ![t] = "Reset.lock"]
    /\ UNCHANGED <<size, copy, timeouts, core, block, mu, wg, readCond, writeCond, lv, hist, out, last>>
    /\ ret' = NoRet

\* r.mu.Lock()
ResetLock(t) ==
    /\ pc[t] = "Reset.lock"
    /\ mu = NoThread
    /\ mu' = t
    /\ pc' = [pc EXCEPT ![t] = "Reset.fin"]
    /\ UNCHANGED <<size, copy, timeouts, core, block, wg, readCond, writeCond, lv, hist, out, last>>
    /\ ret' = NoRet

\* A faulty end of Reset that rewinds the cursors and keeps the error.
ResetFinishKeepsErr(t) ==
    /\ pc[t] = "Reset.fin"
    /\ r' = 0
    /\ w' = 0
    /\ isFull' = FALSE
    /\ Leave(t, Rec("Reset", 0, 0, Nil, <<>>, FALSE))
    /\ last' = NoLast
    /\ UNCHANGED <<size, copy, timeouts, buf, err, block, wg, readCond, writeCond, hist, out>>

\* The cursors are rewound and the error is cleared.
ResetFinish(t) ==
    /\ pc[t] = "Reset.fin"
    /\ r' = 0
    /\ w' = 0
    /\ err' = Nil
    /\ isFull' = FALSE
    /\ Leave(t, Rec("Reset", 0, 0, Nil, <<>>, FALSE))
    /\ last' = NoLast
    /\ UNCHANGED <<size, copy, timeouts, buf, block, wg, readCond, writeCond, hist, out>>

\* --------------------------------------------------------------- ReadFrom
\* A transfer called in non-blocking mode returns its error at once.
Refused(t, op) ==
    /\ pc[t] = "idle"
    /\ ~block
    /\ ret' = [Rec(op, 0, 0, ErrNotBlocking, <<>>, FALSE) EXCEPT !.t = t]
    /\ UNCHANGED <<size, copy, timeouts, core, block, mu, wg, readCond, writeCond, pc, lv, hist, out, last>>

ReadFromRefused(t) == Refused(t, "ReadFrom")

\* ReadFrom(rd) for a source holding k bytes that makes up to z empty reads;
\* k0 keeps what the source held at the call.
CallReadFrom(t, k, z) ==
    /\ block
    /\ Len(hist) + k <= MaxBytes
    /\ Enter(t, "ReadFrom", [NoLocals EXCEPT !.k = k, !.zb = z, !.k0 = k])

\* A faulty head of the loop that always offers the source the segment up to
\* the end of the array, also when the read cursor lies inside it.
ReadFromTopPastReader(t) ==
    /\ pc[t] = "ReadFrom"
    /\ IF readErr(S) # Nil THEN
           /\ Leave(t, Rec("ReadFrom", 0, lv[t].n, readErr(S), <<>>, lv[t].waited))
           /\ UNCHANGED <<readCond>>
       ELSE IF isFull THEN
           /\ Park(t, "ReadFrom.wait", lv[t])
           /\ readCond' = readCond \cup {t}
       ELSE
           /\ pc' = [pc EXCEPT ![t] = "ReadFrom.io"]
           /\ lv' = [lv EXCEPT ![t].at = w, ![t].cap = size - w]
           /\ mu' = NoThread
           /\ UNCHANGED <<readCond>>
           /\ ret' = NoRet
    /\ UNCHANGED <<size, copy, timeouts, core, block, wg, writeCond, hist, out, last>>

\* The head of the loop: error, wait for a read, or pick the free segment at the
\* write cursor and release the mutex for the source.
ReadFromTop(t) ==
    /\ pc[t] = "ReadFrom"
    /\ IF readErr(S) # Nil THEN
           /\ Leave(t, Rec("ReadFrom", 0, lv[t].n, readErr(S), <<>>, lv[t].waited))
           /\ UNCHANGED <<readCond>>
       ELSE IF isFull THEN
           /\ Park(t, "ReadFrom.wait", lv[t])
           /\ readCond' = readCond \cup {t}
       ELSE
           /\ pc' = [pc EXCEPT ![t] = "ReadFrom.io"]
           /\ lv' = [lv EXCEPT ![t].at = w,
                               ![t].cap = IF w >= r THEN size - w ELSE r - w]
           /\ mu' = NoThread
           /\ UNCHANGED <<readCond>>
           /\ ret' = NoRet
    /\ UNCHANGED <<size, copy, timeouts, core, block, wg, writeCond, hist, out, last>>

\* rd.Read(toRead), the mutex released: the source lays nr bytes into the
\* segment and reports rerr.  io.EOF comes with or after its last byte, and a
\* source makes an empty read (0, nil) only while its budget zb lasts.
ReadFromSource(t, nr, rerr) ==
    /\ pc[t] = "ReadFrom.io"
    /\ nr \in 0..Min(lv[t].cap, lv[t].k)
    /\ rerr = EOF => nr = lv[t].k
    /\ (rerr = Nil /\ nr = 0) => lv[t].zb > 0
    /\ buf' = CopyIn(buf, lv[t].at, Payload(nr))
    /\ lv' = [lv EXCEPT ![t].p = Payload(nr), ![t].e = rerr,
                        ![t].k = lv[t].k - nr,
                        ![t].zb = IF rerr = Nil /\ nr = 0 THEN lv[t].zb - 1
                                  ELSE lv[t].zb]
    /\ pc' = [pc EXCEPT ![t] = "ReadFrom.lock"]
    /\ UNCHANGED <<size, copy, timeouts, r, w, isFull, err, block, mu, wg, readCond, writeCond,
                   hist, out, last>>
    /\ ret' = NoRet

\* r.mu.Lock() after the source or the sink has returned.
Relock(t) ==
    /\ pc[t] \in {"ReadFrom.lock", "WriteTo.lock"}
    /\ mu = NoThread
    /\ mu' = t
    /\ pc' = [pc EXCEPT ![t] = IF pc[t] = "ReadFrom.lock" THEN "ReadFrom.post"
                               ELSE "WriteTo.post"]
    /\ UNCHANGED <<size, copy, timeouts, core, block, wg, readCond, writeCond, lv, hist, out, last>>
    /\ ret' = NoRet

\* The rest of the loop body once the mutex is held again.
ReadFromPost(t) ==
    /\ pc[t] = "ReadFrom.post"
    /\ LET nr == Len(lv[t].p)
           rerr == lv[t].e
       IN
       IF rerr # Nil /\ rerr # EOF THEN
           \* err = r.setErr(err, true): err is the nil of the loop's head.
           LET se == setErr(S, Nil) IN
           /\ SetCore(se.s)
           /\ Leave(t, Rec("ReadFrom", 0, lv[t].n, se.e, <<>>, lv[t].waited))
           /\ UNCHANGED <<readCond, writeCond, hist>>
       ELSE IF nr = 0 /\ rerr = Nil THEN
           LET se == IF lv[t].zr + 1 >= MaxZeroReads THEN setErr(S, ErrNoProgress)
                     ELSE [s |-> S, e |-> Nil, bc |-> FALSE]
           IN
           /\ SetCore(se.s)
           /\ readCond' = IF se.bc THEN {} ELSE readCond
           /\ writeCond' = IF se.bc THEN {} ELSE writeCond
           /\ pc' = [pc EXCEPT ![t] = "ReadFrom"]
           /\ lv' = [lv EXCEPT ![t].zr = lv[t].zr + 1, ![t].p = <<>>]
           /\ UNCHANGED <<mu, hist>>
           /\ ret' = NoRet
       ELSE
           LET w0 == w + nr
               w1 == IF w0 = size THEN 0 ELSE w0
           IN
           /\ w' = w1
           /\ isFull' = (r = w1 /\ nr > 0)
           /\ UNCHANGED <<buf, r, err>>
           /\ writeCond' = {}
           /\ hist' = hist \o lv[t].p
           /\ UNCHANGED readCond
           /\ IF rerr = EOF THEN
                  Leave(t, Rec("ReadFrom", 0, lv[t].n + nr, Nil, <<>>, lv[t].waited))
              ELSE
                  /\ pc' = [pc EXCEPT ![t] = "ReadFrom"]
                  /\ lv' = [lv EXCEPT ![t].n = lv[t].n + nr, ![t].zr = 0, ![t].p = <<>>]
                  /\ UNCHANGED <<mu>>
                  /\ ret' = NoRet
    /\ UNCHANGED <<size, copy, timeouts, block, wg, out, last>>

\* ---------------------------------------------------------------- WriteTo
WriteToRefused(t) == Refused(t, "WriteTo")

\* WriteTo(w); k0 keeps how many bytes had been handed out at the call.
CallWriteTo(t) ==
    /\ block
    /\ Enter(t, "WriteTo", [NoLocals EXCEPT !.k0 = Len(out)])

\* maxWrite: half the buffer, or all of it for a buffer under 2 * 8K.
maxWrite(s) == IF s.size \div 2 < MinChunk THEN s.size ELSE s.size \div 2

\* A faulty head of the loop that returns the error it finds as it is, io.EOF
\* included.
WriteToTopEOF(t) ==
    /\ pc[t] = "WriteTo"
    /\ IF readErr(S) # Nil THEN
           /\ Leave(t, Rec("WriteTo", 0, lv[t].n, readErr(S), <<>>, lv[t].waited))
           /\ UNCHANGED <<writeCond>>
       ELSE IF r = w /\ ~isFull THEN
           /\ Park(t, "WriteTo.wait", lv[t])
           /\ writeCond' = writeCond \cup {t}
       ELSE
           /\ pc' = [pc EXCEPT ![t] = "WriteTo.io"]
           /\ lv' = [lv EXCEPT ![t].at = r,
                               ![t].cap = Min(IF r >= w THEN size - r ELSE w - r,
                                              maxWrite(S))]
           /\ mu' = NoThread
           /\ UNCHANGED <<writeCond>>
           /\ ret' = NoRet
    /\ UNCHANGED <<size, copy, timeouts, core, block, wg, readCond, hist, out, last>>

\* The head of the loop: error, wait for a write, or pick the occupied segment
\* at the read cursor and release the mutex for the sink.
WriteToTop(t) ==
    /\ pc[t] = "WriteTo"
    /\ IF readErr(S) # Nil THEN
           /\ Leave(t, Rec("WriteTo", 0, lv[t].n,
                           IF readErr(S) = EOF THEN Nil ELSE readErr(S),
                           <<>>, lv[t].waited))
           /\ UNCHANGED <<writeCond>>
       ELSE IF r = w /\ ~isFull THEN
           /\ Park(t, "WriteTo.wait", lv[t])
           /\ writeCond' = writeCond \cup {t}
       ELSE
           /\ pc' = [pc EXCEPT ![t] = "WriteTo.io"]
           /\ lv' = [lv EXCEPT ![t].at = r,
                               ![t].cap = Min(IF r >= w THEN size - r ELSE w - r,
                                              maxWrite(S))]
           /\ mu' = NoThread
           /\ UNCHANGED <<writeCond>>
           /\ ret' = NoRet
    /\ UNCHANGED <<size, copy, timeouts, core, block, wg, readCond, hist, out, last>>

\* w.Write(toWrite), the mutex released: the sink takes nr bytes of the segment
\* and reports werr.
WriteToSink(t, nr, werr) ==
    /\ pc[t] = "WriteTo.io"
    /\ nr \in 0..lv[t].cap
    /\ out' = out \o Take(Slice(buf, lv[t].at, lv[t].at + lv[t].cap), nr)
    /\ lv' = [lv EXCEPT ![t].k = nr, ![t].e = werr]
    /\ pc' = [pc EXCEPT ![t] = "WriteTo.lock"]
    /\ UNCHANGED <<size, copy, timeouts, core, block, mu, wg, readCond, writeCond, hist, last>>
    /\ ret' = NoRet

\* The rest of the loop body once the mutex is held again.
WriteToPost(t) ==
    /\ pc[t] = "WriteTo.post"
    /\ LET nr == lv[t].k
           werr == lv[t].e
       IN
       IF werr # Nil \/ nr # lv[t].cap THEN
           LET se == setErr(S, IF werr # Nil THEN werr ELSE ErrShortWrite) IN
           /\ SetCore(se.s)
           /\ readCond' = IF se.bc THEN {} ELSE readCond
           /\ writeCond' = IF se.bc THEN {} ELSE writeCond
           /\ Leave(t, Rec("WriteTo", 0, lv[t].n, IF se.e = EOF THEN Nil ELSE se.e,
                           <<>>, lv[t].waited))
       ELSE
           LET r0 == r + nr IN
           /\ r' = IF r0 = size THEN 0 ELSE r0
           /\ isFull' = FALSE
           /\ UNCHANGED <<buf, w, err>>
           /\ readCond' = {}
           /\ UNCHANGED writeCond
           /\ pc' = [pc EXCEPT ![t] = "WriteTo"]
           /\ lv' = [lv EXCEPT ![t].n = lv[t].n + nr]
           /\ UNCHANGED <<mu>>
           /\ ret' = NoRet
    /\ UNCHANGED <<size, copy, timeouts, block, wg, hist, out, last>>

\* --------------------------------------------------------- overwrite mode
\* A faulty eviction that discards all the unread bytes when room is short.
evictAll(s, k) ==
    IF Length(s) + k <= s.size THEN s
    ELSE [s EXCEPT !.r = s.w, !.isFull = FALSE]

\* The eviction before a write of k <= size bytes in overwrite mode: the read
\* cursor moves forward, modulo the capacity, by the number of bytes that do
\* not fit.
evict(s, k) ==
    IF Length(s) + k <= s.size THEN s
    ELSE [s EXCEPT !.r = (s.r + (Length(s) + k - s.size)) % s.size, !.isFull = FALSE]

\* A faulty write in overwrite mode that evicts nothing.
overwriteNoEvict(s, p) ==
    LET q == IF Len(p) > s.size THEN Drop(p, Len(p) - s.size) ELSE p
        res == write(s, q)
    IN [s |-> res.s, n |-> (Len(p) - Len(q)) + res.n, e |-> res.e]

\* write(p) in overwrite mode: of a payload longer than the capacity the last
\* size bytes are kept; room is made by eviction, then the bytes are stored by
\* the write-copy of write.
overwrite(s, p) ==
    LET q == IF Len(p) > s.size THEN Drop(p, Len(p) - s.size) ELSE p
        res == write(evict(s, Len(q)), q)
    IN [s |-> res.s, n |-> (Len(p) - Len(q)) + res.n, e |-> res.e]

\* Write(p) with len(p) = k on a buffer in overwrite mode.
CallOverwrite(t, k) ==
    /\ Len(hist) + k <= MaxOverwritten
    /\ Enter(t, "Write", [NoLocals EXCEPT !.p = Payload(k), !.k = k])

\* Write in overwrite mode: the checks of Write, then one write that cannot
\* fall short, and the wake-up of the readers.
OverwriteBody(t) ==
    /\ pc[t] = "Write"
    /\ IF lv[t].k = 0 \/ err # Nil THEN
           /\ Leave(t, Rec("Write", lv[t].k, 0,
                           IF lv[t].k = 0 THEN setErr(S, Nil).e ELSE writeErr(S),
                           <<>>, FALSE))
           /\ UNCHANGED <<core, writeCond, hist>>
       ELSE
           LET res == overwrite(S, lv[t].p) IN
           /\ SetCore(res.s)
           /\ Leave(t, Rec("Write", lv[t].k, res.n, res.e, <<>>, FALSE))
           /\ writeCond' = IF block THEN {} ELSE writeCond
           /\ hist' = hist \o lv[t].p
    /\ UNCHANGED <<size, copy, timeouts, block, wg, readCond, out, last>>

\* WriteByte(c) on a buffer in overwrite mode.
CallOverwriteByte(t) ==
    /\ Len(hist) + 1 <= MaxOverwritten
    /\ Enter(t, "WriteByte", [NoLocals EXCEPT !.p = Payload(1), !.k = 1])

OverwriteByteBody(t) ==
    /\ pc[t] = "WriteByte"
    /\ IF err # Nil THEN
           /\ Leave(t, Rec("WriteByte", 1, 0, writeErr(S), <<>>, FALSE))
           /\ UNCHANGED <<core, writeCond, hist>>
       ELSE
           LET res == overwrite(S, lv[t].p) IN
           /\ SetCore(res.s)
           /\ Leave(t, Rec("WriteByte", 1, res.n, res.e, <<>>, FALSE))
           /\ writeCond' = IF block THEN {} ELSE writeCond
           /\ hist' = hist \o lv[t].p
    /\ UNCHANGED <<size, copy, timeouts, block, wg, readCond, out, last>>

\* ------------------------------------------------------------------- Copy
\* The sources and the sinks a Copy is given: sound ones and failing ones.
Kinds == {"sound", "failing"}

\* Copy(dst, src) up to the start of its goroutine: SetBlocking(true), which
\* makes new condition variables, wg.Add(1) and the go statement.  The source
\* holds k bytes and makes up to z empty reads.
CallCopy(src, dst, k, z) ==
    /\ copy = NoCopy
    /\ \A t \in Threads : pc[t] = "idle"
    /\ Len(hist) + k <= MaxBytes
    /\ block' = TRUE
    /\ readCond' = {}
    /\ writeCond' = {}
    /\ copy' = [go |-> "spawned", main |-> "called", src |-> src, dst |-> dst,
                k |-> k, z |-> z]
    /\ ret' = NoRet
    /\ UNCHANGED <<size, timeouts, core, mu, wg, pc, lv, hist, out, last>>

\* A call made inside Copy: the goroutine t gets the mutex and its locals, and
\* Copy moves on to the stage next.
CopyEnter(t, label, locals, next) ==
    /\ pc[t] = "idle"
    /\ mu = NoThread
    /\ mu' = t
    /\ pc' = [pc EXCEPT ![t] = label]
    /\ lv' = [lv EXCEPT ![t] = locals]
    /\ copy' = next
    /\ ret' = NoRet
    /\ UNCHANGED <<size, timeouts, core, block, wg, readCond, writeCond, hist, out, last>>

\* r.ReadFrom(src) in the goroutine of Copy.
CopyReadFrom ==
    /\ copy.go = "spawned"
    /\ CopyEnter(Producer, "ReadFrom",
                 [NoLocals EXCEPT !.k = copy.k, !.zb = copy.z, !.k0 = copy.k],
                 [copy EXCEPT !.go = "feed"])

\* A faulty goroutine that ends without closing the write side.
CopyNoClose ==
    /\ copy.go = "feed"
    /\ pc[Producer] = "idle"
    /\ copy' = [copy EXCEPT !.go = "close"]
    /\ ret' = NoRet
    /\ UNCHANGED <<size, timeouts, core, block, mu, wg, readCond, writeCond, pc, lv,
                   hist, out, last>>

\* r.CloseWriter() in the goroutine, once ReadFrom has returned.
CopyCloseWriter ==
    /\ copy.go = "feed"
    /\ CopyEnter(Producer, "CloseWriter", [NoLocals EXCEPT !.e = EOF],
                 [copy EXCEPT !.go = "close"])

\* wg.Done() at the end of the goroutine.
CopyDone ==
    /\ copy.go = "close"
    /\ pc[Producer] = "idle"
    /\ copy' = [copy EXCEPT !.go = "done"]
    /\ ret' = NoRet
    /\ UNCHANGED <<size, timeouts, core, block, mu, wg, readCond, writeCond, pc, lv,
                   hist, out, last>>

\* r.WriteTo(dst) by the caller of Copy.
CopyWriteTo ==
    /\ copy.main = "called"
    /\ CopyEnter(Consumer, "WriteTo", [NoLocals EXCEPT !.k0 = Len(out)],
                 [copy EXCEPT !.main = "drain"])

\* The deferred wg.Wait(): Copy returns what WriteTo has returned once the
\* goroutine is done.
CopyReturn ==
    /\ copy.main = "drain"
    /\ pc[Consumer] = "idle"
    /\ copy.go = "done"
    /\ copy' = [copy EXCEPT !.main = "returned"]
    /\ ret' = NoRet
    /\ UNCHANGED <<size, timeouts, core, block, mu, wg, readCond, writeCond, pc, lv,
                   hist, out, last>>

\* A read of Copy's source: a sound source ends with io.EOF, a failing one
\* with an error of its own.
CopySource ==
    \E nr \in 0..size, rerr \in {Nil, EOF, ErrIO} :
        /\ rerr # Nil => rerr = (IF copy.src = "failing" THEN ErrIO ELSE EOF)
        /\ ReadFromSource(Producer, nr, rerr)

\* A write to Copy's sink: a sound sink takes the segment whole, a failing one
\* any part of it, with or without an error.
CopySink ==
    \E nr \in 0..size, werr \in {Nil, ErrIO} :
        /\ copy.dst = "sound" => (nr = lv[Consumer].cap /\ werr = Nil)
        /\ WriteToSink(Consumer, nr, werr)

\* ------------------------------------------------------------------- Pipe
\* A faulty PipeWriter.Write that hands back what Write returns as it is.
PipeWriterWriteRaw(rec) == rec

\* PipeWriter.Write: what Write of the buffer returns, with ErrWriteOnClosed
\* replaced by io.ErrClosedPipe.
PipeWriterWrite(rec) ==
    [rec EXCEPT !.e = IF rec.e = ErrWriteOnClosed THEN ErrClosedPipe ELSE rec.e]

\* PipeReader.Close: setErr(io.ErrClosedPipe, false).
PipeReaderClose(t) == CallCloseWithError(t, ErrClosedPipe)

\* PipeReader.CloseWithError(e): Close for a nil e, else setErr(e, false).
PipeReaderCloseWithError(t, e) ==
    IF e = Nil THEN PipeReaderClose(t) ELSE CallCloseWithError(t, e)

\* PipeWriter.Close: setErr(io.EOF, false).
PipeWriterClose(t) == CallCloseWithError(t, EOF)

\* PipeWriter.CloseWithError(e): Close for a nil e, else setErr(e, false).
PipeWriterCloseWithError(t, e) ==
    IF e = Nil THEN PipeWriterClose(t) ELSE CallCloseWithError(t, e)

\* --------------------------------------------------- waitRead, waitWrite
\* With a timeout, waitRead() and waitWrite() start a goroutine that calls
\* Cond.Wait() and race it with a timer for canKeepLock.  The step that parks a
\* method (Park) stands for `go func()` and the first half of that goroutine's
\* Cond.Wait(): until that Wait has released the mutex no other goroutine can
\* act on the buffer.  lv[t].h is where the goroutine of t's wait is: "wait"
\* inside Cond.Wait() (parked while t is in the Cond's set, in need of the
\* mutex after a Broadcast), "held" after Wait has returned with the mutex,
\* "kept" after it has won canKeepLock and closed gotCond, "exit" after it has
\* lost and unlocked.  lv[t].sel is where t is: "select", "fired" after
\* <-time.After, "lock" after it has won canKeepLock and calls mu.Lock().

\* The goroutines that outlive the wait that started them: the waiting method
\* has returned with its timeout, and they still have to finish Cond.Wait(),
\* lose canKeepLock and unlock.
Helpers == {"helper1", "helper2"}

\* The name under which the goroutine started by t's wait holds the mutex.
HelperOf(t) ==
    CASE t = Producer -> "producer.helper"
      [] t = Consumer -> "consumer.helper"
      [] OTHER -> "controller.helper"

\* sync: unlock of unlocked mutex.
Fatal == "fatal"

\* mu.Unlock(), by whatever goroutine.
Unlock == IF mu = NoThread THEN Fatal ELSE NoThread

InTimedWait(t) == pc[t] \in WaitLabels /\ Timeout(pc[t]) > 0

\* waitRead() / waitWrite() returns true: the mutex its goroutine has taken is
\* now the caller's.
WaitReturnsTrue(t) ==
    /\ mu' = IF mu = HelperOf(t) THEN t ELSE mu
    /\ pc' = [pc EXCEPT ![t] = After(pc[t])]
    /\ lv' = [lv EXCEPT ![t].sel = "select", ![t].keep = FALSE, ![t].h = "wait"]
    /\ ret' = NoRet
    /\ UNCHANGED <<size, copy, timeouts, core, block, wg, readCond, writeCond, hist, out, last>>

\* The second half of Cond.Wait() in the goroutine: after a Broadcast, c.L.Lock().
HelperWakes(t) ==
    /\ InTimedWait(t)
    /\ lv[t].h = "wait"
    /\ t \notin readCond
    /\ t \notin writeCond
    /\ mu = NoThread
    /\ mu' = HelperOf(t)
    /\ lv' = [lv EXCEPT ![t].h = "held"]
    /\ ret' = NoRet
    /\ UNCHANGED <<size, copy, timeouts, core, block, wg, readCond, writeCond, pc, hist, out, last>>

\* A faulty goroutine that exits without unlocking when it has lost.
HelperCASNoUnlock(t) ==
    /\ InTimedWait(t)
    /\ lv[t].h = "held"
    /\ lv' = [lv EXCEPT ![t].keep = TRUE,
                        ![t].h = IF lv[t].keep THEN "exit" ELSE "kept"]
    /\ ret' = NoRet
    /\ UNCHANGED <<size, copy, timeouts, core, block, mu, wg, readCond, writeCond, pc, hist, out, last>>

\* The goroutine after Cond.Wait(): canKeepLock.CompareAndSwap(false, true);
\* having lost it unlocks, having won it keeps the mutex; close(gotCond).
HelperCAS(t) ==
    /\ InTimedWait(t)
    /\ lv[t].h = "held"
    /\ mu' = IF lv[t].keep THEN Unlock ELSE mu
    /\ lv' = [lv EXCEPT ![t].keep = TRUE,
                        ![t].h = IF lv[t].keep THEN "exit" ELSE "kept"]
    /\ ret' = NoRet
    /\ UNCHANGED <<size, copy, timeouts, core, block, wg, readCond, writeCond, pc, hist, out, last>>

\* case <-time.After(r.timeout).
TimerCase(t) ==
    /\ InTimedWait(t)
    /\ lv[t].sel = "select"
    /\ lv' = [lv EXCEPT ![t].sel = "fired"]
    /\ ret' = NoRet
    /\ UNCHANGED <<size, copy, timeouts, core, block, mu, wg, readCond, writeCond, pc, hist, out, last>>

\* case <-gotCond: return true.
GotCond(t) ==
    /\ InTimedWait(t)
    /\ lv[t].sel = "select"
    /\ lv[t].h = "kept"
    /\ WaitReturnsTrue(t)

\* After the timer: canKeepLock.CompareAndSwap(false, true).  Lost: the
\* goroutine keeps the mutex for the caller, return true.  Won: on to mu.Lock().
MainCAS(t) ==
    /\ InTimedWait(t)
    /\ lv[t].sel = "fired"
    /\ IF lv[t].keep THEN WaitReturnsTrue(t)
       ELSE
           /\ lv' = [lv EXCEPT ![t].keep = TRUE, ![t].sel = "lock"]
           /\ ret' = NoRet
           /\ UNCHANGED <<size, copy, timeouts, core, block, mu, wg, readCond, writeCond, pc, hist, out, last>>

\* The timer has won: mu.Lock(), Broadcast on the Cond waited on,
\* setErr(context.DeadlineExceeded, true), return false; the waiting method
\* goes on as in Expire.  A goroutine still inside Cond.Wait() lives on.
TimedOut(t) ==
    /\ InTimedWait(t)
    /\ lv[t].sel = "lock"
    /\ mu = NoThread
    /\ lv[t].h = "wait" => \E h \in Helpers : pc[h] = "idle"
    /\ LET se == setErr(S, DeadlineExceeded) IN
       /\ SetCore(se.s)
       /\ readCond' = IF se.bc \/ pc[t] \notin DataWaits THEN {} ELSE readCond
       /\ writeCond' = IF se.bc \/ pc[t] \in DataWaits THEN {} ELSE writeCond
    /\ LET goesOn == pc[t] = "Write.wait"
           pc1 == [pc EXCEPT ![t] = IF goesOn THEN "Write.retry" ELSE "idle"]
           slot == CHOOSE h \in Helpers : pc[h] = "idle"
       IN
       /\ pc' = IF lv[t].h = "wait" THEN [pc1 EXCEPT ![slot] = "helper.lock"] ELSE pc1
       /\ lv' = [lv EXCEPT ![t] = IF goesOn
                                  THEN [lv[t] EXCEPT !.sel = "select", !.keep = FALSE,
                                                     !.h = "wait"]
                                  ELSE NoLocals]
       /\ mu' = IF goesOn THEN t ELSE NoThread
       /\ ret' = IF goesOn THEN NoRet
                 ELSE [Rec(MethodOf(pc[t]),
                           IF pc[t] \in {"Read.wait", "ReadByte.wait", "WriteByte.wait"}
                           THEN lv[t].k ELSE 0,
                           0, DeadlineExceeded, <<>>, TRUE) EXCEPT !.t = t]
    /\ wg' = IF pc[t] = "Read.wait" THEN wg - 1 ELSE wg
    /\ UNCHANGED <<size, copy, timeouts, block, hist, out, last>>

\* A goroutine that outlived its wait: the second half of Cond.Wait().
LateWakes(h) ==
    /\ pc[h] = "helper.lock"
    /\ mu = NoThread
    /\ mu' = h
    /\ pc' = [pc EXCEPT ![h] = "helper.unlock"]
    /\ ret' = NoRet
    /\ UNCHANGED <<size, copy, timeouts, core, block, wg, readCond, writeCond, lv, hist, out, last>>

\* Its CompareAndSwap fails, the timer has won: mu.Unlock().
LateUnlocks(h) ==
    /\ pc[h] = "helper.unlock"
    /\ mu' = Unlock
    /\ pc' = [pc EXCEPT ![h] = "idle"]
    /\ ret' = NoRet
    /\ UNCHANGED <<size, copy, timeouts, core, block, wg, readCond, writeCond, lv, hist, out, last>>

\* ------------------------------------------------------- specifications
\* The state New(size) returns, after SetBlocking(b).
New(b) ==
    /\ size \in 1..MaxSize
    /\ buf = [i \in 0..(size - 1) |-> 0]
    /\ r = 0
    /\ w = 0
    /\ isFull = FALSE
    /\ err = Nil
    /\ block = b
    /\ mu = NoThread
    /\ wg = 0
    /\ readCond = {}
    /\ writeCond = {}
    /\ pc = [t \in Threads |-> "idle"]
    /\ lv = [t \in Threads |-> NoLocals]
    /\ ret = NoRet
    /\ hist = <<>>
    /\ out = <<>>
    /\ last = NoLast
    /\ copy = NoCopy

\* WithTimeout(d): one duration for the waits of both sides.
WithTimeout(d) ==
    /\ readTimeout = d
    /\ writeTimeout = d

\* New(size), in either mode, with the timeout New leaves: none.
Init == \E b \in BOOLEAN : New(b) /\ WithTimeout(0)

\* The byte-slice methods of the write side, called by the producer.
WriteCalls ==
    \/ \E k \in 0..(size + 1) : CallWrite(Producer, k)
    \/ \E k \in 0..(size + 1) : CallTryWrite(Producer, k)
    \/ CallWriteByte(Producer)
    \/ CallTryWriteByte(Producer)

WriteSteps ==
    \/ WriteBody(Producer)
    \/ WriteRetry(Producer)
    \/ TryWriteBody(Producer)
    \/ WriteByteBody(Producer)
    \/ WriteByteRetry(Producer)
    \/ TryWriteByteBody(Producer)

\* The byte-slice methods of the read side, called by the consumer.
ReadCalls ==
    \/ \E k \in 0..(size + 1) : CallRead(Consumer, k)
    \/ \E k \in 0..(size + 1) : CallTryRead(Consumer, k)
    \/ CallReadByte(Consumer)

ReadSteps ==
    \/ ReadBody(Consumer)
    \/ ReadRetry(Consumer)
    \/ TryReadBody(Consumer)
    \/ ReadByteBody(Consumer)

ResetSteps ==
    \/ CallReset(Controller)
    \/ ResetBody(Controller)
    \/ ResetWait(Controller)
    \/ ResetLock(Controller)
    \/ ResetFinish(Controller)

\* A Try method called while another goroutine holds the mutex.
TryLockFails ==
    \/ \E k \in 1..(size + 1) : TryWriteFail(Producer, k)
    \/ TryWriteByteFail(Producer)
    \/ \E k \in 0..(size + 1) : TryReadFail(Consumer, k)

\* Writes, reads, Peek and Reset in either mode, by three goroutines; the Try
\* methods find the mutex free.
Next ==
    \/ WriteCalls
    \/ WriteSteps
    \/ ReadCalls
    \/ ReadSteps
    \/ \E k \in 0..(size + 1) : CallPeek(Consumer, k)
    \/ PeekBody(Consumer)
    \/ ResetSteps
    \/ \E t \in Threads : Wake(t)

Spec == Init /\ [][Next]_vars

\* One producer and one consumer in either mode: the producer writes and, at
\* some point, closes the write side; the consumer reads; a Try method may
\* find the mutex taken.
NextSPSC ==
    \/ WriteCalls
    \/ WriteSteps
    \/ CallCloseWriter(Producer)
    \/ CloseBody(Producer)
    \/ ReadCalls
    \/ ReadSteps
    \/ TryLockFails
    \/ \E t \in {Producer, Consumer} : Wake(t)

SpecSPSC == Init /\ [][NextSPSC]_vars

\* A buffer in blocking mode, as SetBlocking(true) leaves it after New.
InitBlocking == New(TRUE) /\ WithTimeout(0)

\* ReadFrom by the producer, from a source of up to size + 1 bytes that
\* fails with no error of its own: it delivers bytes, makes up to MaxEmptyReads
\* empty reads, and ends with io.EOF.
SoundReadFrom ==
    \/ \E k \in 0..(size + 1), z \in 0..MaxEmptyReads : CallReadFrom(Producer, k, z)
    \/ ReadFromTop(Producer)
    \/ \E nr \in 0..size, rerr \in {Nil, EOF} : ReadFromSource(Producer, nr, rerr)
    \/ ReadFromPost(Producer)

\* WriteTo by the consumer, into a sink that takes every segment whole.
SoundWriteTo ==
    \/ CallWriteTo(Consumer)
    \/ WriteToTop(Consumer)
    \/ WriteToSink(Consumer, lv[Consumer].cap, Nil)
    \/ WriteToPost(Consumer)

\* The write side of a blocking buffer, called by the producer: Write,
\* WriteByte, Flush and ReadFrom.
BlockingWriteSide ==
    \/ \E k \in 0..(size + 1) : CallWrite(Producer, k)
    \/ WriteBody(Producer)
    \/ WriteRetry(Producer)
    \/ CallWriteByte(Producer)
    \/ WriteByteBody(Producer)
    \/ WriteByteRetry(Producer)
    \/ CallFlush(Producer)
    \/ FlushBody(Producer)
    \/ SoundReadFrom

\* The read side of a blocking buffer, called by the consumer: Read, ReadByte,
\* TryRead and WriteTo.
BlockingReadSide ==
    \/ ReadCalls
    \/ ReadSteps
    \/ SoundWriteTo

\* A blocking buffer with a producer, a consumer, and a controller that closes
\* it with nil or with an error of its own.
NextBlocking ==
    \/ BlockingWriteSide
    \/ BlockingReadSide
    \/ \E e \in {Nil, ErrUser} : CallCloseWithError(Controller, e)
    \/ CloseBody(Controller)
    \/ \E t \in Threads : Relock(t)
    \/ \E t \in Threads : Wake(t)

SpecBlocking == InitBlocking /\ [][NextBlocking]_vars

\* A pipe: the producer writes with Write, the consumer reads with Read into a
\* non-empty slice, and the controller may close the buffer at any moment.
NextPipe ==
    \/ \E k \in 0..(size + 1) : CallWrite(Producer, k)
    \/ WriteBody(Producer)
    \/ WriteRetry(Producer)
    \/ \E k \in 1..(size + 1) : CallRead(Consumer, k)
    \/ ReadBody(Consumer)
    \/ ReadRetry(Consumer)
    \/ \E e \in {Nil, ErrUser} : CallCloseWithError(Controller, e)
    \/ CloseBody(Controller)
    \/ \E t \in {Producer, Consumer} : Wake(t)

\* A goroutine that holds the mutex runs on to its next wait or return (WF);
\* a goroutine released from a wait gets the mutex, which sync.Mutex hands to
\* a starving waiter (SF); and the consumer of the pipe goes on reading (SF).
SpecPipe ==
    /\ InitBlocking
    /\ [][NextPipe]_vars
    /\ WF_vars(WriteBody(Producer) \/ WriteRetry(Producer))
    /\ WF_vars(ReadBody(Consumer) \/ ReadRetry(Consumer))
    /\ WF_vars(CloseBody(Controller))
    /\ SF_vars(Wake(Producer))
    /\ SF_vars(Wake(Consumer))
    /\ SF_vars(\E k \in 1..(size + 1) : CallRead(Consumer, k))

\* Every producing method against a consumer that reads with Read and
\* ReadByte, in blocking mode, nobody closing.
NextFeed ==
    \/ WriteCalls
    \/ WriteSteps
    \/ SoundReadFrom
    \/ Relock(Producer)
    \/ \E k \in 0..(size + 1) : CallRead(Consumer, k)
    \/ ReadBody(Consumer)
    \/ ReadRetry(Consumer)
    \/ CallReadByte(Consumer)
    \/ ReadByteBody(Consumer)
    \/ \E t \in {Producer, Consumer} : Wake(t)

\* A goroutine that holds the mutex runs on to its next wait or return (WF),
\* and a reader released from its wait gets the mutex (SF).
SpecFeed ==
    /\ InitBlocking
    /\ [][NextFeed]_vars
    /\ WF_vars(WriteSteps \/ ReadFromTop(Producer) \/ ReadFromPost(Producer))
    /\ WF_vars(ReadBody(Consumer) \/ ReadRetry(Consumer) \/ ReadByteBody(Consumer))
    /\ SF_vars(Wake(Consumer))

\* The ways of closing: CloseWithError with nil or with an error, and
\* CloseWriter.
CloseSteps ==
    \/ \E e \in {Nil, ErrUser} : CallCloseWithError(Controller, e)
    \/ CallCloseWriter(Controller)
    \/ CloseBody(Controller)

\* The life of a buffer in either mode: the producer writes and flushes, the
\* consumer reads and peeks, and the controller closes and resets the buffer.
NextLifecycle ==
    \/ WriteCalls
    \/ WriteSteps
    \/ CallFlush(Producer)
    \/ FlushBody(Producer)
    \/ ReadCalls
    \/ ReadSteps
    \/ \E k \in 0..(size + 1) : CallPeek(Consumer, k)
    \/ PeekBody(Consumer)
    \/ CloseSteps
    \/ ResetSteps
    \/ \E t \in Threads : Wake(t)

SpecLifecycle == Init /\ [][NextLifecycle]_vars

\* The durations given to WithTimeout: negative, zero and positive.
Durations == {-1, 0, 1}

\* A buffer in blocking mode after WithTimeout(d).
InitTimed == New(TRUE) /\ \E d \in Durations : WithTimeout(d)

\* The methods that wait, on a blocking buffer with a timeout: Write,
\* WriteByte and ReadFrom by the producer, Read, ReadByte and WriteTo by the
\* consumer, Flush by the controller; the timer of a wait may fire at any
\* moment.
NextTimed ==
    \/ \E k \in 1..(size + 1) : CallWrite(Producer, k)
    \/ WriteBody(Producer)
    \/ WriteRetry(Producer)
    \/ CallWriteByte(Producer)
    \/ WriteByteBody(Producer)
    \/ WriteByteRetry(Producer)
    \/ \E k \in 1..(size + 1) : CallReadFrom(Producer, k, 0)
    \/ ReadFromTop(Producer)
    \/ \E nr \in 0..size, rerr \in {Nil, EOF} : ReadFromSource(Producer, nr, rerr)
    \/ ReadFromPost(Producer)
    \/ \E k \in 1..size : CallRead(Consumer, k)
    \/ ReadBody(Consumer)
    \/ ReadRetry(Consumer)
    \/ CallReadByte(Consumer)
    \/ ReadByteBody(Consumer)
    \/ SoundWriteTo
    \/ CallFlush(Controller)
    \/ FlushBody(Controller)
    \/ \E t \in {Producer, Consumer} : Relock(t)
    \/ \E t \in Threads : Wake(t)
    \/ \E t \in Threads : Expire(t)

SpecTimed == InitTimed /\ [][NextTimed]_vars

\* WithTimeout(0).WithReadTimeout(d): a duration for the waits for data only.
WithReadTimeout(d) ==
    /\ readTimeout = d
    /\ writeTimeout = 0

\* WithTimeout(0).WithWriteTimeout(d): a duration for the waits for space only.
WithWriteTimeout(d) ==
    /\ readTimeout = 0
    /\ writeTimeout = d

\* A buffer in blocking mode with a timeout on one side only.
InitSplit == New(TRUE) /\ (WithReadTimeout(1) \/ WithWriteTimeout(1))

SpecSplit == InitSplit /\ [][NextTimed]_vars

\* A buffer in either mode, with or without a timeout.
InitReset == \E b \in BOOLEAN, d \in {0, 1} : New(b) /\ WithTimeout(d)

\* A buffer that is written, read, closed, left to time out, and reset.
NextReset ==
    \/ \E k \in 1..(size + 1) : CallWrite(Producer, k)
    \/ WriteBody(Producer)
    \/ WriteRetry(Producer)
    \/ \E k \in 1..size : CallRead(Consumer, k)
    \/ ReadBody(Consumer)
    \/ ReadRetry(Consumer)
    \/ CloseSteps
    \/ ResetSteps
    \/ \E t \in {Producer, Consumer} : Wake(t)
    \/ \E t \in {Producer, Consumer} : Expire(t)

SpecReset == InitReset /\ [][NextReset]_vars

\* The Try methods under contention, in either mode: the producer uses
\* TryWrite, TryWriteByte and Write, the consumer TryRead and Read, and a Try
\* method may be called while the other goroutine holds the mutex.
NextTry ==
    \/ \E k \in 0..(size + 1) : CallTryWrite(Producer, k)
    \/ TryWriteBody(Producer)
    \/ TryWriteLock(Producer)
    \/ TryWriteLocked(Producer)
    \/ CallTryWriteByte(Producer)
    \/ TryWriteByteBody(Producer)
    \/ \E k \in 1..(size + 1) : CallWrite(Producer, k)
    \/ WriteBody(Producer)
    \/ WriteRetry(Producer)
    \/ \E k \in 0..(size + 1) : CallTryRead(Consumer, k)
    \/ TryReadBody(Consumer)
    \/ \E k \in 1..(size + 1) : CallRead(Consumer, k)
    \/ ReadBody(Consumer)
    \/ ReadRetry(Consumer)
    \/ TryLockFails
    \/ \E t \in {Producer, Consumer} : Wake(t)

SpecTry == Init /\ [][NextTry]_vars

\* A buffer in either mode that is closed with an error and reset: the
\* producer uses every write method and Flush, with an empty and a non-empty
\* slice, the consumer every read method and Peek, with a slice of 0, 1 or
\* size bytes.
NextFailed ==
    \/ \E k \in {0, 1, size} : CallWrite(Producer, k)
    \/ \E k \in {0, 1} : CallTryWrite(Producer, k)
    \/ CallWriteByte(Producer)
    \/ CallTryWriteByte(Producer)
    \/ WriteSteps
    \/ CallFlush(Producer)
    \/ FlushBody(Producer)
    \/ \E k \in {0, 1, size} : CallRead(Consumer, k)
    \/ \E k \in {0, 1} : CallTryRead(Consumer, k)
    \/ CallReadByte(Consumer)
    \/ ReadSteps
    \/ \E k \in {0, 1} : CallPeek(Consumer, k)
    \/ PeekBody(Consumer)
    \/ CallCloseWithError(Controller, ErrUser)
    \/ CloseBody(Controller)
    \/ ResetSteps
    \/ \E t \in Threads : Wake(t)

SpecFailed == Init /\ [][NextFailed]_vars

\* ReadFrom from a sound source while the consumer drains the buffer with Read:
\* the producer goes on with Write once ReadFrom has returned, and the
\* controller closes the write side at some moment.
NextFill ==
    \/ SoundReadFrom
    \/ Relock(Producer)
    \/ \E k \in 1..size : CallWrite(Producer, k)
    \/ WriteBody(Producer)
    \/ WriteRetry(Producer)
    \/ \E k \in 1..size : CallRead(Consumer, k)
    \/ ReadBody(Consumer)
    \/ ReadRetry(Consumer)
    \/ CallCloseWriter(Controller)
    \/ CloseBody(Controller)
    \/ \E t \in {Producer, Consumer} : Wake(t)

SpecFill == InitBlocking /\ [][NextFill]_vars

\* ReadFrom by the producer from a source that may fail: a read of the source
\* reports nil, io.EOF or an error of its own, with or without bytes.
FaultyReadFrom ==
    \/ \E k \in 0..(size + 1) : CallReadFrom(Producer, k, 0)
    \/ ReadFromTop(Producer)
    \/ \E nr \in 0..size, rerr \in {Nil, EOF, ErrIO} : ReadFromSource(Producer, nr, rerr)
    \/ ReadFromPost(Producer)

\* ReadFrom from a failing source while the consumer drains the buffer with Read.
NextFault ==
    \/ FaultyReadFrom
    \/ Relock(Producer)
    \/ \E k \in 1..size : CallRead(Consumer, k)
    \/ ReadBody(Consumer)
    \/ ReadRetry(Consumer)
    \/ \E t \in {Producer, Consumer} : Wake(t)

SpecFault == InitBlocking /\ [][NextFault]_vars

\* WriteTo by the consumer into a sound sink while the producer writes with
\* Write and WriteByte and the controller closes the write side at some moment.
NextDrain ==
    \/ \E k \in 1..(size + 1) : CallWrite(Producer, k)
    \/ WriteBody(Producer)
    \/ WriteRetry(Producer)
    \/ CallWriteByte(Producer)
    \/ WriteByteBody(Producer)
    \/ WriteByteRetry(Producer)
    \/ SoundWriteTo
    \/ Relock(Consumer)
    \/ CallCloseWriter(Controller)
    \/ CloseBody(Controller)
    \/ \E t \in {Producer, Consumer} : Wake(t)

\* A goroutine that holds the mutex runs on to its next wait or return, and the
\* sink returns (WF); the goroutine in WriteTo gets the mutex after the sink has
\* returned and after a wait has been released (SF).
SpecDrain ==
    /\ InitBlocking
    /\ [][NextDrain]_vars
    /\ WF_vars(WriteBody(Producer) \/ WriteRetry(Producer))
    /\ WF_vars(WriteByteBody(Producer) \/ WriteByteRetry(Producer))
    /\ WF_vars(WriteToTop(Consumer) \/ WriteToPost(Consumer))
    /\ WF_vars(WriteToSink(Consumer, lv[Consumer].cap, Nil))
    /\ SF_vars(Relock(Consumer))
    /\ SF_vars(Wake(Consumer))
    /\ WF_vars(CloseBody(Controller))

\* WriteTo by the consumer into a sink that may fail: a write to the sink takes
\* any part of the segment and reports nil or an error of its own.
FaultyWriteTo ==
    \/ CallWriteTo(Consumer)
    \/ WriteToTop(Consumer)
    \/ \E nr \in 0..size, werr \in {Nil, ErrIO} : WriteToSink(Consumer, nr, werr)
    \/ WriteToPost(Consumer)

\* WriteTo into a failing sink while the producer fills the buffer with Write.
NextSink ==
    \/ \E k \in 1..(size + 1) : CallWrite(Producer, k)
    \/ WriteBody(Producer)
    \/ WriteRetry(Producer)
    \/ FaultyWriteTo
    \/ Relock(Consumer)
    \/ \E t \in {Producer, Consumer} : Wake(t)

SpecSink == InitBlocking /\ [][NextSink]_vars

\* The empty reads a source of Copy may make: none, a few, or as many as
\* ReadFrom puts up with in a row.
Stalls == {0, MaxEmptyReads, MaxZeroReads}

\* What the goroutine of Copy does, with the mutex held or free, what it
\* needs the mutex for, and the same for the caller of Copy.
CopyFeeds ==
    \/ ReadFromTop(Producer)
    \/ CopySource
    \/ ReadFromPost(Producer)
    \/ CloseBody(Producer)
    \/ CopyDone
CopyFeedLocks ==
    \/ CopyReadFrom
    \/ Relock(Producer)
    \/ Wake(Producer)
    \/ CopyCloseWriter
CopyDrains ==
    \/ WriteToTop(Consumer)
    \/ CopySink
    \/ WriteToPost(Consumer)
    \/ CopyReturn
CopyDrainLocks ==
    \/ CopyWriteTo
    \/ Relock(Consumer)
    \/ Wake(Consumer)

\* Both goroutines of Copy run on while they hold the mutex, the source and the
\* sink return, and the goroutine ends (WF); a goroutine that needs the mutex,
\* for a call, after the source or the sink has returned, or after a wait has
\* been released, gets it (SF).
CopyFair ==
    /\ WF_vars(CopyFeeds)
    /\ WF_vars(CopyDrains)
    /\ SF_vars(CopyFeedLocks)
    /\ SF_vars(CopyDrainLocks)

\* One Copy on a new buffer between a sound source and a sound sink, nothing
\* else calling the buffer meanwhile.  The source that stalls as long as
\* ReadFrom puts up with is an empty one, to keep the runs few.
NextCopy ==
    \/ \E k \in 0..(size + 1), z \in Stalls :
           /\ z = MaxZeroReads => k = 0
           /\ CallCopy("sound", "sound", k, z)
    \/ CopyFeeds
    \/ CopyFeedLocks
    \/ CopyDrains
    \/ CopyDrainLocks

SpecCopy == Init /\ [][NextCopy]_vars /\ CopyFair

\* One Copy on a new buffer with a failing source, a failing sink, or both.
NextCopyFault ==
    \/ \E src \in Kinds, dst \in Kinds, k \in 0..(size + 1) :
           /\ "failing" \in {src, dst}
           /\ CallCopy(src, dst, k, 0)
    \/ CopyFeeds
    \/ CopyFeedLocks
    \/ CopyDrains
    \/ CopyDrainLocks

SpecCopyFault == Init /\ [][NextCopyFault]_vars /\ CopyFair

\* A buffer after SetOverwrite(true), in either mode: the producer writes with
\* Write and WriteByte, the consumer reads with Read and ReadByte.
NextOverwrite ==
    \/ \E k \in 0..(size + 1) : CallOverwrite(Producer, k)
    \/ OverwriteBody(Producer)
    \/ CallOverwriteByte(Producer)
    \/ OverwriteByteBody(Producer)
    \/ \E k \in 0..(size + 1) : CallRead(Consumer, k)
    \/ ReadBody(Consumer)
    \/ ReadRetry(Consumer)
    \/ CallReadByte(Consumer)
    \/ ReadByteBody(Consumer)
    \/ Wake(Consumer)

SpecOverwrite == Init /\ [][NextOverwrite]_vars

\* The two halves of Pipe(): the producer holds the PipeWriter, writes and
\* closes it, with or without an error; the consumer holds the PipeReader,
\* reads and closes it, with or without an error.
NextHalves ==
    \/ \E k \in 0..(size + 1) : CallWrite(Producer, k)
    \/ WriteBody(Producer)
    \/ WriteRetry(Producer)
    \/ PipeWriterClose(Producer)
    \/ \E e \in {Nil, ErrUser} : PipeWriterCloseWithError(Producer, e)
    \/ CloseBody(Producer)
    \/ \E k \in 0..(size + 1) : CallRead(Consumer, k)
    \/ ReadBody(Consumer)
    \/ ReadRetry(Consumer)
    \/ PipeReaderClose(Consumer)
    \/ \E e \in {Nil, ErrUser} : PipeReaderCloseWithError(Consumer, e)
    \/ CloseBody(Consumer)
    \/ \E t \in {Producer, Consumer} : Wake(t)

SpecHalves == InitBlocking /\ [][NextHalves]_vars

\* Both cursors index the array: with a cursor beyond it the next slice
\* expression of any method (r.buf[r.w:], r.buf[r.r:]) panics and the program
\* ends.
Indexable == r < size /\ w < size

\* A buffer shared by goroutines that call both sides: the producer runs
\* ReadFrom and the consumer WriteTo, while the controller writes and reads
\* with Write and Read.  The bytes of the source and the payloads of Write
\* make up MaxBytes bytes at most.
SharedSteps ==
    \/ \E k \in 1..(size + 1) :
           /\ Len(hist) + Len(lv[Controller].p) + k <= MaxBytes
           /\ CallReadFrom(Producer, k, 0)
    \/ ReadFromTop(Producer)
    \/ \E nr \in 0..size, rerr \in {Nil, EOF} : ReadFromSource(Producer, nr, rerr)
    \/ ReadFromPost(Producer)
    \/ SoundWriteTo
    \/ \E k \in 1..size :
           /\ Len(hist) + lv[Producer].k + Len(lv[Producer].p) + k <= MaxBytes
           /\ CallWrite(Controller, k)
    \/ WriteBody(Controller)
    \/ WriteRetry(Controller)
    \/ \E k \in 1..size : CallRead(Controller, k)
    \/ ReadBody(Controller)
    \/ ReadRetry(Controller)
    \/ \E t \in {Producer, Consumer} : Relock(t)
    \/ \E t \in Threads : Wake(t)

\* The runs are followed while the cursors index the array and the bytes
\* handed out are the first of the bytes stored: up to the first byte that is
\* handed out twice, out of order or without having been stored.
NextShared == Indexable /\ IsPrefix(out, hist) /\ SharedSteps

SpecShared == InitBlocking /\ [][NextShared]_vars

\* A blocking buffer with a timeout, and room for the goroutines of its waits.
InitRace ==
    /\ size \in 1..MaxSize
    /\ buf = [i \in 0..(size - 1) |-> 0]
    /\ r = 0
    /\ w = 0
    /\ isFull = FALSE
    /\ err = Nil
    /\ block = TRUE
    /\ mu = NoThread
    /\ wg = 0
    /\ readCond = {}
    /\ writeCond = {}
    /\ pc = [t \in Threads \cup Helpers |-> "idle"]
    /\ lv = [t \in Threads \cup Helpers |-> NoLocals]
    /\ ret = NoRet
    /\ hist = <<>>
    /\ out = <<>>
    /\ last = NoLast
    /\ copy = NoCopy
    /\ WithTimeout(1)

\* Write by the producer and Read by the consumer, each wait a race of its
\* timer and its goroutine, step by step.
NextRace ==
    \/ \E k \in 1..(size + 1) : CallWrite(Producer, k)
    \/ WriteBody(Producer)
    \/ WriteRetry(Producer)
    \/ \E k \in 1..size : CallRead(Consumer, k)
    \/ ReadBody(Consumer)
    \/ ReadRetry(Consumer)
    \/ \E t \in {Producer, Consumer} : HelperWakes(t)
    \/ \E t \in {Producer, Consumer} : HelperCAS(t)
    \/ \E t \in {Producer, Consumer} : TimerCase(t)
    \/ \E t \in {Producer, Consumer} : GotCond(t)
    \/ \E t \in {Producer, Consumer} : MainCAS(t)
    \/ \E t \in {Producer, Consumer} : TimedOut(t)
    \/ \E h \in Helpers : LateWakes(h)
    \/ \E h \in Helpers : LateUnlocks(h)

SpecRace == InitRace /\ [][NextRace]_vars

\* Writes, Flush and reads in either mode, with Try methods that may find the
\* mutex taken, and the buffer closed at some moment: every error setErr passes
\* through without storing it is returned by some call.
NextTransient ==
    \/ WriteCalls
    \/ WriteSteps
    \/ CallFlush(Producer)
    \/ FlushBody(Producer)
    \/ ReadCalls
    \/ ReadSteps
    \/ TryLockFails
    \/ CloseSteps
    \/ \E t \in Threads : Wake(t)

SpecTransient == Init /\ [][NextTransient]_vars

\* Reset among calls that block: Write, WriteByte and Flush by the producer,
\* Read and ReadByte by the consumer, Reset by the controller.
NextResetWaits ==
    \/ \E k \in 1..(size + 1) : CallWrite(Producer, k)
    \/ WriteBody(Producer)
    \/ WriteRetry(Producer)
    \/ CallWriteByte(Producer)
    \/ WriteByteBody(Producer)
    \/ WriteByteRetry(Producer)
    \/ CallFlush(Producer)
    \/ FlushBody(Producer)
    \/ \E k \in 1..size : CallRead(Consumer, k)
    \/ ReadBody(Consumer)
    \/ ReadRetry(Consumer)
    \/ CallReadByte(Consumer)
    \/ ReadByteBody(Consumer)
    \/ ResetSteps
    \/ \E t \in {Producer, Consumer} : Wake(t)
    \/ \E t \in {Producer, Consumer} : Expire(t)

\* What the producer and the consumer do while they hold the mutex, up to
\* their next wait or their return.
Runs ==
    \/ WriteBody(Producer)
    \/ WriteRetry(Producer)
    \/ WriteByteBody(Producer)
    \/ WriteByteRetry(Producer)
    \/ FlushBody(Producer)
    \/ ReadBody(Consumer)
    \/ ReadRetry(Consumer)
    \/ ReadByteBody(Consumer)

\* The steps of Reset that do not wait for the mutex: wg.Wait() returns once
\* the counter is at zero.
ResetRuns ==
    \/ ResetBody(Controller)
    \/ ResetWait(Controller)
    \/ ResetFinish(Controller)

\* A goroutine that a Broadcast has released asks for the mutex.
Wakes ==
    \/ Wake(Producer)
    \/ Wake(Consumer)

SpecResetWaits == InitReset /\ [][NextResetWaits]_vars

\* A buffer in blocking mode, with or without a timeout.
InitResetFair == \E d \in {0, 1} : New(TRUE) /\ WithTimeout(d)

\* A goroutine that can run does (WF), and a goroutine that asks for the mutex
\* again and again gets it (SF): sync.Mutex does not starve a waiter.
SpecResetFair ==
    /\ InitResetFair
    /\ [][NextResetWaits]_vars
    /\ WF_vars(Runs)
    /\ WF_vars(ResetRuns)
    /\ SF_vars(ResetLock(Controller))
    /\ SF_vars(Wakes)

\* The goroutines that read when several do.
Readers == {Consumer, Controller}

\* One producer and two consumers in blocking mode: the producer writes, each
\* consumer calls Read, ReadByte and TryRead, and a TryRead may find the mutex
\* taken.
NextReaders ==
    \/ \E k \in 1..(size + 1) : CallWrite(Producer, k)
    \/ WriteBody(Producer)
    \/ WriteRetry(Producer)
    \/ \E t \in Readers, k \in 1..size : CallRead(t, k)
    \/ \E t \in Readers : ReadBody(t)
    \/ \E t \in Readers : ReadRetry(t)
    \/ \E t \in Readers : CallReadByte(t)
    \/ \E t \in Readers : ReadByteBody(t)
    \/ \E t \in Readers, k \in 1..size : CallTryRead(t, k)
    \/ \E t \in Readers : TryReadBody(t)
    \/ \E t \in Readers, k \in 1..size : TryReadFail(t, k)
    \/ \E t \in Threads : Wake(t)

SpecReaders == InitBlocking /\ [][NextReaders]_vars

\* ------------------------------------------------------------ properties
WriteOps == {"Write", "TryWrite", "WriteByte", "TryWriteByte"}

\* The producer's call returns in this step.
ProducerReturns == pc[Producer] # "idle" /\ pc'[Producer] = "idle"

\* The consumer's call returns in this step.
ConsumerReturns == pc[Consumer] # "idle" /\ pc'[Consumer] = "idle"

\* The count the producer's running call has reached: n of the call that
\* returns in this step, else the bytes a Write in progress has stored.
CountAfter ==
    IF ProducerReturns /\ ret'.op \in WriteOps THEN ret'.n ELSE lv'[Producer].n

\* C1: with one producer and one consumer, in either mode, the bytes handed to
\* the consumer are at every moment a prefix of the bytes accepted from the
\* producer, none lost, repeated or out of order: the bytes handed out followed
\* by the unread bytes are exactly the bytes accepted, every step grows the
\* accepted bytes by what the producer's call counts in n, and once the write
\* side is closed and the buffer is drained the two sequences are equal.
C1_StreamIntact ==
    /\ [](/\ IsPrefix(out, hist)
          /\ out \o Bytes(S) = hist
          /\ (err = EOF /\ IsEmpty(S) => out = hist))
    /\ [][Len(hist') - Len(hist) = CountAfter - lv[Producer].n]_vars

\* A blocking run in which more bytes than the capacity went through, the
\* write side was closed and the consumer has drained the buffer.
C1_Drained ==
    /\ block
    /\ err = EOF
    /\ IsEmpty(S)
    /\ Len(out) > size
    /\ out = hist
    /\ ret.t = Consumer
    /\ ret.e = EOF

\* C2: in every state reached by Write, WriteByte, TryWrite, TryWriteByte,
\* Read, ReadByte, TryRead, Peek and Reset, Length() lies between 0 and
\* Capacity(), and Length() + Free() equals Capacity().
C2_LengthFree ==
    /\ 0 <= Length(S)
    /\ Length(S) <= Capacity(S)
    /\ Length(S) + Free(S) = Capacity(S)

\* A partly filled buffer whose unread bytes run over the end of the array.
C2_Wrapped ==
    /\ w < r
    /\ w > 0
    /\ Length(S) = 2
    /\ Free(S) = 1

\* C3: IsFull() and IsEmpty() are never both true, both are false while
\* 0 < Length() < Capacity(), IsFull() holds exactly when Length() equals
\* Capacity() and IsEmpty() exactly when Length() is 0.
C3_FullEmpty ==
    /\ ~(IsFull(S) /\ IsEmpty(S))
    /\ (0 < Length(S) /\ Length(S) < Capacity(S) => ~IsFull(S) /\ ~IsEmpty(S))
    /\ (IsFull(S) <=> Length(S) = Capacity(S))
    /\ (IsEmpty(S) <=> Length(S) = 0)

\* A buffer filled up with both cursors inside the array, after reads.
C3_FullAway ==
    /\ IsFull(S)
    /\ r = w
    /\ r > 0
    /\ Len(out) > 0

\* The bytes handed out since the last complete non-blocking Write, past the
\* older bytes that were unread when it was called, up to its length.
ReadBack ==
    SubSeq(out, last.at + last.skip + 1,
           Min(Len(out), last.at + last.skip + Len(last.p)))

\* C4: whatever the capacity and the cursors, after a non-blocking Write has
\* stored a whole payload of N <= Free() bytes, the reads that follow hand out
\* the payload in order, byte for byte, also when the payload runs over the end
\* of the array and when N is the capacity.
C4_RoundTrip ==
    last.on => ReadBack = Take(last.p, Len(ReadBack))

\* A payload of two bytes written at the last cell of a buffer of three, which
\* ends one past the capacity, read back whole.
C4_Straddle ==
    /\ last.on
    /\ size = 3
    /\ Len(last.p) = 2
    /\ last.skip = 0
    /\ Len(ReadBack) = 2
    /\ r = 1
    /\ w = 1
    /\ ~isFull

\* The producer's Write of at least minlen bytes, or its WriteByte, runs on a
\* full non-blocking buffer with no sticky error and returns in this step.
FullWriteStep(minlen) ==
    /\ ~block
    /\ err = Nil
    /\ IsFull(S)
    /\ \/ pc[Producer] = "Write" /\ lv[Producer].k >= minlen
       \/ pc[Producer] = "WriteByte"
    /\ ProducerReturns

\* The consumer's Read into at least minlen bytes, or its ReadByte, runs on an
\* empty non-blocking buffer with no sticky error and returns in this step.
EmptyReadStep(minlen) ==
    /\ ~block
    /\ err = Nil
    /\ IsEmpty(S)
    /\ \/ pc[Consumer] = "Read" /\ lv[Consumer].k >= minlen
       \/ pc[Consumer] = "ReadByte"
    /\ ConsumerReturns

\* The call of t returns e and the count 0 and leaves the fields as they were.
Refusal(t, e) ==
    /\ ret'.t = t
    /\ ret'.e = e
    /\ ret'.n = 0
    /\ ret'.data = <<>>
    /\ UNCHANGED core

\* C5 as stated: in non-blocking mode every Write or WriteByte on a full buffer
\* returns ErrIsFull with 0 bytes written and every Read or ReadByte on an
\* empty buffer returns ErrIsEmpty with 0 bytes read, the cursors, the full
\* flag, the stored bytes and the sticky error unchanged.
C5_AnyLength ==
    [][/\ FullWriteStep(0) => Refusal(Producer, ErrIsFull)
       /\ EmptyReadStep(0) => Refusal(Consumer, ErrIsEmpty)]_vars

\* C5: in non-blocking mode with no sticky error, a Write of a non-empty p or a
\* WriteByte on a full buffer returns ErrIsFull with 0 bytes written, and a
\* Read into a non-empty p or a ReadByte on an empty buffer returns ErrIsEmpty
\* with 0 bytes read; the cursors, the full flag, the stored bytes and the
\* sticky error are unchanged.
C5_NonEmptyArgument ==
    [][/\ FullWriteStep(1) => Refusal(Producer, ErrIsFull)
       /\ EmptyReadStep(1) => Refusal(Consumer, ErrIsEmpty)]_vars

\* A Write of a non-empty p has just been refused on a full buffer.
C5_Refused ==
    /\ ~block
    /\ ret.t = Producer
    /\ ret.op = "Write"
    /\ ret.arg > 0
    /\ ret.n = 0
    /\ ret.e = ErrIsFull
    /\ IsFull(S)

\* The producer's Write of more bytes than are free, some being free, runs on
\* a non-blocking buffer with no sticky error and returns in this step.
ShortWriteStep ==
    /\ ~block
    /\ err = Nil
    /\ pc[Producer] = "Write"
    /\ 0 < Free(S)
    /\ Free(S) < lv[Producer].k
    /\ ProducerReturns

\* C6: in non-blocking mode (no sticky error set), a Write of p with
\* 0 < Free() < len(p) stores the first Free() bytes of p and no more, returns
\* that count with ErrTooMuchDataToWrite and leaves the buffer full; the error
\* is not kept as sticky, so a Read that follows succeeds with those bytes.
C6_PartialWrite ==
    [][ShortWriteStep =>
          /\ ret'.t = Producer
          /\ ret'.n = Free(S)
          /\ ret'.e = ErrTooMuchDataToWrite
          /\ Bytes(S)' = Bytes(S) \o Take(lv[Producer].p, Free(S))
          /\ IsFull(S)'
          /\ err' = Nil
          /\ readErr(S)' = Nil
          /\ read(S, size)'.e = Nil
          /\ read(S, size)'.data = Bytes(S)']_vars

\* A Write has just stored part of its payload, across the end of the array.
C6_Partial ==
    /\ ~block
    /\ ret.t = Producer
    /\ ret.op = "Write"
    /\ ret.e = ErrTooMuchDataToWrite
    /\ ret.n = 2
    /\ ret.arg > 2
    /\ IsFull(S)
    /\ r = 1

\* The producer's Write takes its first pass in this step.
WriteFirstPass ==
    /\ block
    /\ pc[Producer] = "Write"
    /\ pc'[Producer] # "Write"

ReaderWaits == pc[Consumer] \in {"Read.wait", "ReadByte.wait"}

\* The consumer's Read finds data in this step, first pass or after a wait.
ReadFindsData ==
    /\ pc[Consumer] \in {"Read", "Read.retry"}
    /\ pc'[Consumer] # pc[Consumer]
    /\ lv[Consumer].k > 0
    /\ ~IsEmpty(S)

\* C8: in blocking mode, as soon as a producing method (Write, WriteByte,
\* TryWrite, TryWriteByte, ReadFrom) has stored a byte no reader is left
\* un-notified in its wait, and a Read or ReadByte that waits on the empty
\* buffer returns at least one byte with nothing else having to happen; a Read
\* that finds data returns the bytes there are, up to len(p), without waiting
\* for more.
C8_ReaderWoken ==
    /\ [](~IsEmpty(S) => writeCond = {})
    /\ [][ReadFindsData =>
            /\ ret'.t = Consumer
            /\ ret'.n = Min(lv[Consumer].k, Length(S))
            /\ ret'.data = Take(Bytes(S), ret'.n)
            /\ ret'.e = Nil]_vars
    /\ (ReaderWaits /\ ~IsEmpty(S)) ~> (ret.t = Consumer /\ ret.n >= 1)

\* A Read into more bytes than were stored has returned after its wait with
\* the bytes there were.
C8_ShortRead ==
    /\ ret.t = Consumer
    /\ ret.op = "Read"
    /\ ret.waited
    /\ ret.n >= 1
    /\ ret.n < ret.arg
    /\ ret.e = Nil

\* C9 as stated: in blocking mode every consuming step (of Read, ReadByte,
\* TryRead or WriteTo) that removes at least one byte wakes whoever waits for
\* room: a Write, WriteByte or ReadFrom blocked on a full buffer and a Flush
\* blocked on a non-empty one.
C9_WriterWoken ==
    [][block /\ Length(S)' < Length(S) => readCond' = {}]_vars

\* The methods a goroutine blocked on an empty or full buffer may be in once it
\* has been released from its wait.
Released == {"Read.retry", "ReadByte.retry", "Write.retry", "WriteByte.retry"}

\* C10 as stated, for Read, ReadByte, Write and WriteByte: once the buffer is
\* closed, with nil or with an error, a call released from its wait returns:
\* it does not wait again, and a write returns the error of the close,
\* ErrWriteOnClosed after a close with nil.
C10_CloseReleases ==
    [][\A t \in Threads :
          err # Nil /\ pc[t] \in Released /\ pc'[t] # pc[t] =>
              /\ pc'[t] = "idle"
              /\ pc[t] \in {"Write.retry", "WriteByte.retry"} => ret'.e = writeErr(S)]_vars

\* C11: once CloseWithError or CloseWriter has set a sticky error, io.EOF
\* included, no step other than a step of Reset changes the stored error.
C11_FirstErrorWins ==
    [][(err # Nil /\ pc[Controller] \notin {"Reset", "Reset.fin"}) => err' = err]_vars

\* The labels at which a call of a byte method or of Flush holds the mutex and
\* has not looked at the buffer yet.
Entered == {"Read", "ReadByte", "TryRead", "Peek", "Write", "WriteByte", "TryWrite",
            "TryWriteByte", "Flush"}

\* Goroutine t returns from a call in this step, one it made after error e had
\* been stored.
CallUnder(t, e) ==
    /\ err = e
    /\ pc[t] \in Entered
    /\ pc'[t] # pc[t]

ReadAfterEOF(t) ==
    /\ err = EOF
    /\ pc[t] \in {"Read", "Read.retry", "ReadByte", "ReadByte.retry", "TryRead"}
    /\ pc'[t] # pc[t]

\* C13: after CloseWriter or CloseWithError(nil) a read returns the next unread
\* bytes in order, and never (0, io.EOF) while bytes remain; on the empty
\* buffer it returns (0, io.EOF), and the buffer, once closed and empty, stays
\* empty until Reset, so that io.EOF is returned again and again.
C13_DrainThenEOF ==
    [][/\ \A t \in Threads :
             ReadAfterEOF(t) =>
                 /\ pc'[t] = "idle"
                 /\ ret'.t = t
                 /\ ret'.data = Take(Bytes(S), Min(lv[t].k, Length(S)))
                 /\ ret'.n = Len(ret'.data)
                 /\ ret'.n = 0 => ret'.e = (IF IsEmpty(S) THEN EOF ELSE Nil)
       /\ (err = EOF /\ IsEmpty(S) /\ pc[Controller] \notin {"Reset", "Reset.fin"}) =>
              (err' = EOF /\ IsEmpty(S)')]_vars

\* C14: a Write (of any length), WriteByte, TryWrite or TryWriteByte called
\* after CloseWriter or CloseWithError(nil) returns ErrWriteOnClosed with a
\* count of 0 and stores no byte, in either mode.
C14_WriteOnClosed ==
    [][\A t \in Threads :
          (err = EOF /\ pc[t] \in {"Write", "WriteByte", "TryWrite", "TryWriteByte"}
                    /\ pc'[t] # pc[t]) =>
              /\ pc'[t] = "idle"
              /\ ret'.t = t
              /\ ret'.e = ErrWriteOnClosed
              /\ ret'.n = 0
              /\ UNCHANGED <<core, hist>>]_vars

\* Goroutine t leaves a wait in this step with no Broadcast having released
\* it: the timer of its wait has fired.
TimerFires(t) ==
    /\ pc[t] \in WaitLabels
    /\ t \in readCond \cup writeCond
    /\ pc'[t] # pc[t]

\* Goroutine t goes on in this step after a wait or enters its method, the
\* stored error being context.DeadlineExceeded.
RunsExpired(t) ==
    /\ err = DeadlineExceeded
    /\ pc[t] \in Entered \cup {"Read.retry", "ReadByte.retry", "Write.retry",
                               "WriteByte.retry", "ReadFrom", "WriteTo"}
    /\ pc'[t] # pc[t]

\* C15: in blocking mode after WithTimeout(d), a wait that no Broadcast ends
\* can end only with d > 0, and then context.DeadlineExceeded is stored, no
\* goroutine stays parked on either condition, and the method that waited
\* returns context.DeadlineExceeded with a count of 0 (Write after one more
\* pass of its loop); with context.DeadlineExceeded stored, every method that
\* wakes from a wait or is called returns it, a method called returning a count
\* of 0; with d <= 0 context.DeadlineExceeded is never stored nor returned.
C15_Deadline ==
    /\ [][\A t \in Threads :
             /\ TimerFires(t) =>
                    /\ Timeout(pc[t]) > 0
                    /\ err' = DeadlineExceeded
                    /\ readCond' = {}
                    /\ writeCond' = {}
                    /\ IF pc[t] = "Write.wait"
                       THEN pc'[t] = "Write.retry" /\ mu' = t
                       ELSE /\ pc'[t] = "idle"
                            /\ ret'.t = t
                            /\ ret'.e = DeadlineExceeded
                            /\ ret'.n = 0
             /\ RunsExpired(t) =>
                    /\ pc'[t] = "idle"
                    /\ ret'.t = t
                    /\ ret'.e = DeadlineExceeded
                    /\ pc[t] \in Entered => (ret'.n = 0 /\ UNCHANGED core)
                    /\ err' = DeadlineExceeded]_vars
    /\ [](err = DeadlineExceeded => (readCond = {} /\ writeCond = {}))
    /\ []((readTimeout <= 0 /\ writeTimeout <= 0) =>
              (err # DeadlineExceeded /\ ret.e # DeadlineExceeded))

\* A wait has timed out with context.DeadlineExceeded stored, and another
\* goroutine, released from its wait by that, has not run yet.
C15_TimedOut ==
    /\ readTimeout > 0
    /\ err = DeadlineExceeded
    /\ ret.e = DeadlineExceeded
    /\ ret.waited
    /\ ret.n = 0
    /\ \E t \in Threads : pc[t] \in WaitLabels /\ t \notin readCond \cup writeCond

RoundTrips(s) ==
    \A k \in 1..s.size :
        LET p == [i \in 1..k |-> i]
            wr == write(s, p)
            fin == setErr(wr.s, wr.e)
            rd == read(fin.s, k)
        IN /\ writeErr(s) = Nil
           /\ wr.n = k
           /\ fin.e = Nil
           /\ readErr(fin.s) = Nil
           /\ rd.n = k
           /\ rd.data = p
           /\ rd.e = Nil

\* C17: when Reset returns and no other call is in flight, the cursors are 0,
\* the full flag is false, the error is cleared, Length() is 0, and a Write
\* followed by a Read hands its payload back with nil errors.
C17_ResetRewinds ==
    [][(/\ pc[Controller] = "Reset.fin"
        /\ pc'[Controller] = "idle"
        /\ pc[Producer] = "idle"
        /\ pc[Consumer] = "idle") =>
           /\ r' = 0
           /\ w' = 0
           /\ ~isFull'
           /\ err' = Nil
           /\ Length([S EXCEPT !.r = r', !.w = w', !.isFull = isFull']) = 0
           /\ RoundTrips([S EXCEPT !.r = r', !.w = w', !.isFull = isFull',
                                    !.err = err', !.buf = buf'])]_vars

\* Reset has returned on a buffer that held unread bytes, nothing in flight.
C17_Discarded ==
    /\ ret.op = "Reset"
    /\ ret.t = Controller
    /\ pc[Producer] = "idle"
    /\ pc[Consumer] = "idle"
    /\ Len(hist) > Len(out)
    /\ Length(S) = 0

\* C18: in blocking mode a Read that has waited on the empty buffer returns
\* bytes and a nil error, whether or not Reset was called while it waited: a
\* Reset never makes it return an error or 0 bytes.
C18_ReadSurvivesReset ==
    (block /\ ret.op = "Read" /\ ret.waited) => (ret.e = Nil /\ ret.n > 0)

\* C19: in blocking mode a Write that has waited on the full buffer completes:
\* it returns (len(p), nil), whether or not Reset was called while it waited.
C19_WriteSurvivesReset ==
    (block /\ ret.op = "Write" /\ ret.waited) => (ret.e = Nil /\ ret.n = ret.arg)

\* C20: TryRead, TryWrite and TryWriteByte never wait: no call of them, with
\* whatever argument, is ever waiting for the mutex, and none returns after a
\* wait on a condition.
C20_TryNeverWaits ==
    /\ \A t \in Threads : pc[t] # "TryWrite.lock"
    /\ ret.op \in {"TryRead", "TryWrite", "TryWriteByte"} => ~ret.waited

\* What Read(p) with len(p) = k hands back on the fields s: the count and the
\* bytes.
ReadWould(s, k) ==
    IF k = 0 \/ readErr(s) # Nil THEN [n |-> 0, data |-> <<>>]
    ELSE [n |-> read(s, k).n, data |-> read(s, k).data]

InReadFrom == {"ReadFrom", "ReadFrom.wait", "ReadFrom.io", "ReadFrom.lock", "ReadFrom.post"}

\* ReadFrom returns in this step, its source having reported io.EOF.
ReadFromEnds ==
    /\ pc[Producer] = "ReadFrom.post"
    /\ lv[Producer].e = EOF
    /\ pc'[Producer] # pc[Producer]

C23_SourceError ==
    [][(/\ pc[Producer] = "ReadFrom.post"
        /\ lv[Producer].e = ErrIO
        /\ pc'[Producer] # pc[Producer]) =>
            /\ ret'.t = Producer
            /\ ret'.e = ErrIO
            /\ ret'.n = lv[Producer].k0 - lv[Producer].k
            /\ err' = ErrIO]_vars


\* The labels of a WriteTo in progress, and the bytes of the segment that the
\* sink has taken while the read cursor has yet to move past them.
InWriteTo == {"WriteTo", "WriteTo.wait", "WriteTo.io", "WriteTo.lock", "WriteTo.post"}
Handed == IF pc[Consumer] \in {"WriteTo.lock", "WriteTo.post"} THEN lv[Consumer].k ELSE 0

\* C24: in blocking mode, with one producer, WriteTo hands every byte written
\* to the sink once and in the order written; on an empty open buffer it waits;
\* each segment handed over wakes the writers that wait for room; and once the
\* write side is closed it returns, when the buffer is drained, nil (not
\* io.EOF) and the number of bytes it has delivered.
C24_WriteToDrains ==
    /\ [](out \o Drop(Bytes(S), Handed) = hist)
    /\ [][(pc[Consumer] = "WriteTo" /\ pc'[Consumer] # pc[Consumer]) =>
            /\ (IsEmpty(S) /\ err = Nil) => pc'[Consumer] = "WriteTo.wait"
            /\ pc'[Consumer] = "WriteTo.wait" => IsEmpty(S)
            /\ pc'[Consumer] = "idle" =>
                   /\ err = EOF
                   /\ IsEmpty(S)
                   /\ out = hist
                   /\ ret'.e = Nil
                   /\ ret'.n = Len(out) - lv[Consumer].k0]_vars
    /\ [][(pc[Consumer] = "WriteTo.post" /\ pc'[Consumer] # pc[Consumer]) =>
            /\ pc'[Consumer] = "WriteTo"
            /\ readCond' = {}
            /\ Length(S) - Length([S EXCEPT !.r = r', !.isFull = isFull']) = lv[Consumer].k]_vars
    /\ (err = EOF /\ pc[Consumer] \in InWriteTo) ~> (ret.t = Consumer /\ ret.e = Nil)

\* WriteTo has returned after the close, having waited on an empty buffer and
\* delivered more bytes than the capacity.
C24_Delivered ==
    /\ ret.t = Consumer
    /\ ret.op = "WriteTo"
    /\ ret.waited
    /\ ret.n > size
    /\ ret.e = Nil
    /\ err = EOF
    /\ out = hist


\* The sink has failed or has taken less than the segment, and WriteTo goes on
\* in this step with the mutex held again.
SinkFailed ==
    /\ pc[Consumer] = "WriteTo.post"
    /\ pc'[Consumer] # pc[Consumer]
    /\ (lv[Consumer].e # Nil \/ lv[Consumer].k # lv[Consumer].cap)

\* The error WriteTo owes after a failed write to the sink.
SinkError == IF lv[Consumer].e # Nil THEN lv[Consumer].e ELSE ErrShortWrite

\* C25: when the sink returns an error, WriteTo returns it and stores it; when
\* the sink takes less than it was offered without an error, WriteTo returns
\* and stores io.ErrShortWrite; either way n counts every byte the sink has
\* taken, those of the failing call included.
C25_SinkError ==
    [][SinkFailed =>
          /\ ret'.t = Consumer
          /\ ret'.e = SinkError
          /\ err' = SinkError
          /\ ret'.n = Len(out) - lv[Consumer].k0]_vars

\* What holds of a failed write to the sink: the error returned and stored,
\* and a count that leaves out the bytes the failing call has taken.
SinkErrorSticky ==
    [][SinkFailed =>
          /\ ret'.t = Consumer
          /\ ret'.e = SinkError
          /\ err' = SinkError
          /\ ret'.n = Len(out) - lv[Consumer].k0 - lv[Consumer].k]_vars


\* WriteTo returns to Copy in this step.
WriteToEnds ==
    /\ copy.main = "drain"
    /\ pc[Consumer] \in {"WriteTo", "WriteTo.post"}
    /\ pc'[Consumer] = "idle"

\* A Copy between a sound source and a sound sink.
SoundCopy == copy.src = "sound" /\ copy.dst = "sound"

\* C26 as stated: Copy switches the buffer to blocking mode; with a sound
\* source and a sound sink it returns, once the source has reported io.EOF and
\* the buffer is drained, a nil error and the number of bytes the source held,
\* the sink having received exactly the source's bytes in order, however the
\* source cuts its reads, empty reads included.
C26_CopyAnySource ==
    /\ [](copy # NoCopy => block)
    /\ [][(WriteToEnds /\ SoundCopy) =>
            /\ ret'.e = Nil
            /\ ret'.n = copy.k
            /\ Len(out) = copy.k
            /\ out = hist
            /\ copy.go \in {"close", "done"}]_vars
    /\ (SoundCopy /\ copy.main = "called") ~> (copy.main = "returned")

\* C26 as it holds: the same, for a source that makes fewer than 100 empty
\* reads in a row.
C26_CopySound ==
    /\ [](copy # NoCopy => block)
    /\ [][(WriteToEnds /\ SoundCopy /\ copy.z < MaxZeroReads) =>
            /\ ret'.e = Nil
            /\ ret'.n = copy.k
            /\ Len(out) = copy.k
            /\ out = hist
            /\ copy.go \in {"close", "done"}]_vars
    /\ (SoundCopy /\ copy.main = "called") ~> (copy.main = "returned")

\* A Copy of more bytes than the capacity, from a source that has made an
\* empty read, has returned with every byte delivered.
C26_Copied ==
    /\ copy.main = "returned"
    /\ SoundCopy
    /\ copy.k > size
    /\ copy.z > 0
    /\ lv[Producer].zb = 0
    /\ Len(out) = copy.k
    /\ out = hist
    /\ err = EOF

\* C27: when the source fails Copy returns the source's error, and when the
\* sink fails the sink's error; both sides stop and Copy returns; the count is
\* the number of bytes the sink has accepted.
C27_CopyFails ==
    /\ [][WriteToEnds =>
            /\ (SinkFailed /\ copy.src = "sound") => ret'.e = SinkError
            /\ (~SinkFailed /\ copy.src = "failing") => ret'.e = ErrIO
            /\ (SinkFailed \/ copy.src = "failing") => ret'.n = Len(out)]_vars
    /\ (~SoundCopy /\ copy.main = "called") ~> (copy.main = "returned")


\* The producer's Flush returns in this step.
FlushEnds ==
    /\ pc[Producer] = "Flush"
    /\ pc'[Producer] = "idle"

\* What the claim has Flush do at its loop head: return nil on an empty buffer
\* (with no error, or closed with io.EOF), ErrIsNotEmpty on a non-empty one in
\* non-blocking mode, the stored error when there is one, and wait otherwise.
FlushAsClaimed ==
    /\ (IsEmpty(S) /\ err \in {Nil, EOF}) => (FlushEnds /\ ret'.e = Nil)
    /\ (~block /\ ~IsEmpty(S) /\ err \in {Nil, EOF}) =>
           (FlushEnds /\ ret'.e = ErrIsNotEmpty)
    /\ (block /\ FlushEnds) =>
           \/ IsEmpty(S) /\ ret'.e = (IF err = EOF THEN Nil ELSE err)
           \/ err \notin {Nil, EOF} /\ ret'.e = err
    /\ UNCHANGED <<core, hist, out>>

\* C28: Flush returns nil at once on an empty buffer with no error; in
\* non-blocking mode it returns ErrIsNotEmpty while unread bytes remain; in
\* blocking mode it returns only once the buffer is empty (nil, also after a
\* close with io.EOF) or with the stored error; and a Flush that waits is
\* released when a read operation, whichever it is, has emptied the buffer.
C28_FlushReturns ==
    /\ [][(pc[Producer] = "Flush" /\ pc'[Producer] # pc[Producer]) => FlushAsClaimed]_vars
    /\ [](pc[Producer] = "Flush.wait" /\ IsEmpty(S) => Producer \notin readCond)

\* What holds of Flush: the same at its loop head.
FlushHeadHolds ==
    [][(pc[Producer] = "Flush" /\ pc'[Producer] # pc[Producer]) => FlushAsClaimed]_vars


\* The producer's Write or WriteByte of a non-empty payload returns in this
\* step.
Overwrites ==
    /\ pc[Producer] \in {"Write", "WriteByte"}
    /\ pc'[Producer] = "idle"
    /\ lv[Producer].k > 0

\* The fields after this step.
SAfter == [S EXCEPT !.buf = buf', !.r = r', !.w = w', !.isFull = isFull', !.err = err']

\* C29: in overwrite mode every Write and WriteByte returns nil and the length
\* of its payload, whatever the payload's length and the cursors, full buffer
\* or not; a write that brings the unread bytes to the capacity or beyond
\* leaves the buffer full, with Length() = Capacity(), and so does every write
\* after it until a read.
C29_NeverRefused ==
    [][Overwrites =>
          /\ ret'.t = Producer
          /\ ret'.e = Nil
          /\ ret'.n = lv[Producer].k
          /\ Length(SAfter) = Min(Length(S) + lv[Producer].k, size)
          /\ Length(S) + lv[Producer].k >= size =>
                 (IsFull(SAfter) /\ Length(SAfter) = Capacity(SAfter))]_vars

\* A Write longer than the capacity has returned complete on a buffer whose
\* cursors are off the start of the array, and the buffer is full.
C29_LongWrite ==
    /\ ret.op = "Write"
    /\ ret.arg > size
    /\ ret.n = ret.arg
    /\ ret.e = Nil
    /\ IsFull(S)
    /\ r # 0
    /\ Len(out) > 0

\* C30: in overwrite mode a Write of k <= capacity bytes, or a WriteByte, on a
\* buffer holding L bytes moves the read cursor forward by max(0, L + k -
\* capacity) modulo the capacity, discarding that many of the oldest unread
\* bytes and no more, and appends the payload; a Read that follows returns the
\* most recent bytes in the order written.
C30_EvictsOldest ==
    /\ [][(Overwrites /\ lv[Producer].k <= size) =>
            LET over == IF Length(S) + lv[Producer].k > size
                        THEN Length(S) + lv[Producer].k - size ELSE 0
            IN /\ r' = (r + over) % size
               /\ Bytes(SAfter) = Drop(Bytes(S), over) \o lv[Producer].p]_vars
    /\ [][(pc[Consumer] \in {"Read", "Read.retry"} /\ pc'[Consumer] = "idle"
            /\ lv[Consumer].k > 0) =>
               /\ ret'.n = Min(lv[Consumer].k, Length(S))
               /\ ret'.data = Take(Bytes(S), ret'.n)]_vars

\* The first Read of a run has returned a full buffer's worth of bytes, the
\* most recent ones written, older bytes having been evicted.
C30_ReadsNewest ==
    /\ ret.op = "Read"
    /\ size > 1
    /\ ret.n = size
    /\ out = ret.data
    /\ Len(hist) = size + 2
    /\ ret.data = [i \in 1..size |-> 2 + i]

C32_KeepsHead ==
    [][(Overwrites /\ pc[Producer] = "Write" /\ lv[Producer].k > size /\ IsFull(S)) =>
          Bytes(SAfter) = Take(lv[Producer].p, size)]_vars

\* The producer's PipeWriter.Write, called with error e stored, ends in this
\* step.
PipeWriteUnder(e) ==
    /\ err = e
    /\ pc[Producer] = "Write"
    /\ pc'[Producer] # "Write"

\* The consumer's PipeReader.Read ends or waits in this step, error e stored.
PipeReadUnder(e) ==
    /\ err = e
    /\ pc[Consumer] \in {"Read", "Read.retry"}
    /\ pc'[Consumer] # pc[Consumer]

\* What the halves of a pipe do once one of them is closed, for the calls
\* whose payload has at least minlen bytes: a Write after the read half was
\* closed returns io.ErrClosedPipe, or the error of CloseWithError; after
\* PipeWriter.Close a Read returns the bytes that remain and then io.EOF, and a
\* Write returns io.ErrClosedPipe; after PipeWriter.CloseWithError(e) a Read
\* returns no bytes and e.
PipeClosed(minlen) ==
    /\ \A e \in {ErrClosedPipe, ErrUser} :
          (PipeWriteUnder(e) /\ lv[Producer].k >= minlen) =>
              /\ pc'[Producer] = "idle"
              /\ PipeWriterWrite(ret').e = e
              /\ ret'.n = 0
              /\ UNCHANGED <<core, hist>>
    /\ (PipeWriteUnder(EOF) /\ lv[Producer].k >= minlen) =>
              /\ pc'[Producer] = "idle"
              /\ PipeWriterWrite(ret').e = ErrClosedPipe
              /\ ret'.n = 0
              /\ UNCHANGED <<core, hist>>
    /\ (PipeReadUnder(EOF) /\ lv[Consumer].k > 0) =>
              /\ pc'[Consumer] = "idle"
              /\ ret'.data = Take(Bytes(S), Min(lv[Consumer].k, Length(S)))
              /\ ret'.n = Len(ret'.data)
              /\ ret'.n = 0 => (IsEmpty(S) /\ ret'.e = EOF)
              /\ ret'.n > 0 => (ret'.e = Nil \/ (ret'.e = EOF /\ ret'.n = Length(S)))
    /\ PipeReadUnder(ErrUser) =>
              /\ pc'[Consumer] = "idle"
              /\ ret'.n = 0
              /\ ret'.data = <<>>
              /\ ret'.e = ErrUser
              /\ UNCHANGED <<core, out>>

\* C33: after PipeReader.Close every later PipeWriter.Write returns
\* io.ErrClosedPipe (the error of PipeReader.CloseWithError, if that was
\* called); after PipeWriter.Close a PipeReader.Read returns the bytes that
\* remain and then io.EOF, and a PipeWriter.Write returns io.ErrClosedPipe,
\* not ErrWriteOnClosed; after PipeWriter.CloseWithError(e), e not nil, a
\* PipeReader.Read returns no bytes and e.
C33_PipeHalves == [][PipeClosed(0)]_vars

\* The same for the writes of a non-empty payload.
PipeHalvesNonEmpty == [][PipeClosed(1)]_vars

\* A PipeWriter.Write of a non-empty payload has been refused after
\* PipeWriter.Close, unread bytes remaining for the reader.
PipeWriteRefused ==
    /\ err = EOF
    /\ ret.op = "Write"
    /\ ret.arg > 0
    /\ PipeWriterWrite(ret).e = ErrClosedPipe
    /\ Length(S) > 0

\* C34: in every reachable state, whatever methods run concurrently and also
\* while ReadFrom or WriteTo has released the mutex, the read cursor and the
\* write cursor lie in [0, capacity) and the full flag is set only when the
\* two cursors are equal.
C34_CursorsInRange ==
    /\ r \in 0..(size - 1)
    /\ w \in 0..(size - 1)
    /\ isFull => r = w

\* The bytes WriteTo has handed to the sink and not yet taken out of the
\* buffer: the sink has returned and the read cursor is still to be moved.
HandedNotTaken ==
    IF pc[Consumer] \in {"WriteTo.lock", "WriteTo.post"} /\ lv[Consumer].e = Nil
       /\ lv[Consumer].k = lv[Consumer].cap
    THEN lv[Consumer].k ELSE 0

\* C35: while ReadFrom has released the mutex for the source nothing else
\* moves the write cursor off the segment the source fills, while WriteTo has
\* released it for the sink nothing else moves the read cursor off the segment
\* the sink takes, and the cursor moved afterwards accounts for the bytes
\* handled: the bytes handed out are at every moment the first of the bytes
\* stored, and with the unread ones they are all the bytes stored, none
\* overwritten and none handed out twice.
C35_SegmentsPrivate ==
    /\ [](IsPrefix(out, hist))
    /\ [](Indexable => out \o Drop(Bytes(S), HandedNotTaken) = hist)
    /\ [][pc[Producer] \in {"ReadFrom.io", "ReadFrom.lock"} => w' = w]_vars
    /\ [][pc[Consumer] \in {"WriteTo.io", "WriteTo.lock"} => r' = r]_vars

\* The labels at which a method of SpecRace is inside its critical section.
RaceLocked == {"Read", "Read.retry", "Write", "Write.retry"}

\* C36: with a timeout, however the timer and the Broadcast interleave, one of
\* the two paths wins canKeepLock.  The mutex is never unlocked while unlocked;
\* a method past its wait holds the mutex, and whoever holds the mutex is a
\* method inside its critical section or a goroutine of a wait that is about to
\* hand it over or to unlock it, so it is never leaked; and a wait ends with
\* context.DeadlineExceeded stored and reported only on the path of the timer,
\* a wait that ends on the path of the goroutine stores nothing.
C36_OneWinner ==
    /\ [](mu # Fatal)
    /\ [](\A t \in Threads : pc[t] \in RaceLocked => mu = t)
    /\ [](\A t \in Threads : mu = t => pc[t] \in RaceLocked)
    /\ [](\A t \in Threads : mu = HelperOf(t) =>
              InTimedWait(t) /\ lv[t].h \in {"held", "kept"})
    /\ [](\A h \in Helpers : mu = h => pc[h] = "helper.unlock")
    /\ [](\A t \in Threads : InTimedWait(t) => ~(lv[t].sel = "lock" /\ lv[t].h = "kept"))
    /\ [][\A t \in Threads :
              (InTimedWait(t) /\ pc'[t] \notin WaitLabels) =>
                  IF lv[t].sel = "lock"
                  THEN /\ err' = DeadlineExceeded \/ (err # Nil /\ err # EOF /\ err' = err)
                       /\ pc'[t] = "idle" => (ret'.t = t /\ ret'.n = 0 /\ ret'.e = err')
                  ELSE /\ lv[t].h = "kept"
                       /\ UNCHANGED core
                       /\ pc'[t] = After(pc[t])
                       /\ mu' = t]_vars
    /\ [][(err' = DeadlineExceeded /\ err # DeadlineExceeded) =>
              \E t \in Threads : InTimedWait(t) /\ lv[t].sel = "lock"
                                 /\ pc'[t] \notin WaitLabels]_vars

\* The timer has won canKeepLock while the goroutine of the wait holds the
\* mutex: the goroutine has to unlock before the method can lock.
C36_TimerWonGoroutineLocked ==
    \E t \in Threads : InTimedWait(t) /\ lv[t].sel = "lock" /\ lv[t].h = "held"

\* The errors setErr hands back without storing them.
TransientErrs == Transient \ {Nil}

\* C37: the sticky error is never ErrIsEmpty, ErrIsFull, ErrAcquireLock,
\* ErrTooMuchDataToWrite or ErrIsNotEmpty; a call that returns one of them
\* leaves the sticky error as it was; and with no sticky error a read of a
\* buffer that holds bytes and a write that fits the free space succeed,
\* whatever was returned before and with no Reset in between.
C37_TransientNotSticky ==
    /\ [](err \notin TransientErrs)
    /\ [][ret'.e \in TransientErrs => err' = err]_vars
    /\ [][\A t \in Threads :
              (err = Nil /\ pc'[t] = "idle") =>
                  /\ (pc[t] \in {"Read", "TryRead"} /\ lv[t].k > 0 /\ ~IsEmpty(S)) =>
                         (ret'.e = Nil /\ ret'.n = Min(lv[t].k, Length(S)))
                  /\ (pc[t] = "ReadByte" /\ ~IsEmpty(S)) => (ret'.e = Nil /\ ret'.n = 1)
                  /\ (pc[t] \in {"Write", "TryWrite"} /\ lv[t].k > 0
                      /\ lv[t].k <= Free(S)) =>
                         (ret'.e = Nil /\ ret'.n = lv[t].k)
                  /\ (pc[t] \in {"WriteByte", "TryWriteByte"} /\ ~IsFull(S)) =>
                         ret'.e = Nil]_vars

\* A call has just returned an error that is not stored, and the buffer has
\* both bytes to read and room to write.
C37_ReturnedAndUsable ==
    /\ ret.e \in TransientErrs
    /\ err = Nil
    /\ ~IsEmpty(S)
    /\ ~IsFull(S)

\* Reset is past its first step: the error is set, the waiters are released.
ResetUnderWay == pc[Controller] \in {"Reset.wg", "Reset.lock", "Reset.fin"}

\* C38: Reset cannot be held up for ever.  From its first step to its last an
\* error is stored, no goroutine is parked on a Cond and none parks, and the
\* counter of the WaitGroup does not grow; in every state in which Reset has
\* been called and has not returned, Reset or a call under way can take a
\* step; and the last step of Reset, which rewinds the cursors, is taken only
\* with the counter at zero and no Read that has counted itself under way.
C38_ResetReturns ==
    /\ [](ResetUnderWay => (err # Nil /\ readCond = {} /\ writeCond = {}))
    /\ [](pc[Controller] # "idle" =>
              ENABLED (ResetRuns \/ ResetLock(Controller) \/ Runs \/ Wakes))
    /\ [][ResetUnderWay => wg' <= wg]_vars
    /\ [][(pc[Controller] = "Reset.fin" /\ pc'[Controller] = "idle") =>
              /\ wg = 0
              /\ pc[Consumer] \notin {"Read.wait", "Read.retry"}
              /\ r' = 0 /\ w' = 0]_vars

\* A Reset that has been called returns, the goroutines being scheduled
\* fairly.
ResetTerminates == (pc[Controller] # "idle") ~> (pc[Controller] = "idle")

\* Reset is in wg.Wait() while a Read that has counted itself has yet to
\* return, and the producer is still inside its wait.
C38_ResetAwaitsRead ==
    /\ pc[Controller] = "Reset.wg"
    /\ wg > 0
    /\ pc[Consumer] \in {"Read.wait", "Read.retry"}
    /\ pc[Producer] \in WaitLabels

\* C39: from the moment io.EOF is stored until a Reset no byte is stored, by
\* a call that starts after the close or by one that was under way: a Write
\* or WriteByte that waited for room returns ErrWriteOnClosed with nothing
\* stored after the close, and a ReadFrom under way stores no more.
C39_ClosedToWriters ==
    /\ [][(err = EOF /\ err' = EOF) => (hist' = hist /\ w' = w)]_vars
    /\ [][(err = EOF /\ ret'.t = Producer /\ ret'.op \in {"Write", "WriteByte"}
           /\ ret'.arg > 0) =>
              ret'.e = ErrWriteOnClosed]_vars

\* C40: with two consumers the bytes handed out, in the order of the calls
\* that took them, are the bytes stored in the order stored, and with the
\* unread ones they are all of them: no byte goes to two calls and none is
\* lost.  What one call returns is the run of stored bytes that follows the
\* bytes handed out before it.  A Read or ReadByte that wakes to an empty
\* buffer waits again, and with no error stored neither returns an error or
\* an empty result.
C40_OneReaderEach ==
    /\ [](out \o Bytes(S) = hist)
    /\ [][\A t \in Readers :
              (ret'.t = t /\ ret'.op \in {"Read", "ReadByte", "TryRead"}) =>
                  /\ ret'.n = Len(ret'.data)
                  /\ out' = out \o ret'.data
                  /\ ret'.data = SubSeq(hist, Len(out) + 1, Len(out) + ret'.n)
                  /\ ret'.n = 0 => UNCHANGED core]_vars
    /\ [][\A t \in Readers :
              (pc[t] \in {"Read.retry", "ReadByte.retry"} /\ pc'[t] # pc[t]
               /\ IsEmpty(S) /\ err = Nil) =>
                  /\ pc[t] = "Read.retry" => pc'[t] = "Read.wait"
                  /\ pc[t] = "ReadByte.retry" => pc'[t] = "ReadByte.wait"
                  /\ t \in writeCond'
                  /\ ret' = NoRet]_vars
    /\ [][\A t \in Readers :
              (ret'.t = t /\ ret'.op \in {"Read", "ReadByte"} /\ err = Nil) =>
                  (ret'.e = Nil /\ ret'.n > 0)]_vars

\* Two readers have waited on the empty buffer and a Write has released them:
\* one has returned with its bytes, the other has yet to take the mutex and
\* will find the buffer empty.
C40_OneServedOneLeft ==
    /\ ret.t = Consumer
    /\ ret.op = "Read"
    /\ ret.waited
    /\ ret.n > 0
    /\ pc[Controller] = "Read.wait"
    /\ Controller \notin writeCond
    /\ IsEmpty(S)
    /\ err = Nil

====
